---- MODULE Spec2Model ----
(***************************************************************************)
(* Trade execution core of the prop-trading platform: the webhook          *)
(* receiver, the pre-trade risk gate, the block executor with per-account  *)
(* proration, cost basis / realized P&L tracking, the broker fill stream   *)
(* listener and the dashboard kill switch, modelled over the ledger        *)
(* (Trade rows), the RiskConfig rows, the PropFirmAccount rows and the     *)
(* WebhookEvent rows.                                                      *)
(*                                                                         *)
(* Decimal values (quantities, prices, P&L) are fixed-point integers with  *)
(* Scale units per 1; Decimal division and the DecimalField quantization   *)
(* round half-even, as Python's decimal context and Django do.  The Kelly  *)
(* sizing engine and the portfolio allocator compute in binary floating    *)
(* point, modelled as exact ratios rounded to Mantissa significant bits.   *)
(*                                                                         *)
(* A trade_id is the millisecond at which the row is inserted.  Every      *)
(* specification but IdSpec puts each insert in a later millisecond than   *)
(* the newest row; IdSpec lets inserts share one.  RaceSpec lets the       *)
(* periodic sweep run while a call of execute_signal holds its accounts,   *)
(* ConfigSpec varies the RiskConfig table, LinkSpec the broker links of    *)
(* the accounts and EquitySpec the account sizes.                          *)
(***************************************************************************)
EXTENDS Integers, Sequences, FiniteSets, TLC

\* ---------------------------------------------------------------- bounds
Scale == 10
MaxTrades == 3
MaxEvents == 2
MaxDay == 1

\* a null DecimalField / an empty broker_order_id / a non-numeric price string
None == -1
NoOrder == 0
BadPrice == None - 1

\* Decimal("NaN"): what Decimal(str(signal["quantity"])) makes of "nan"
NaNQuantity == None - 2

\* ------------------------------------------------------- decimal helpers
Abs(x) == IF x < 0 THEN -x ELSE x

\* a / b for b > 0, rounded half-even to an integer number of units
RoundDiv(a, b) ==
    LET q == a \div b
        r == a % b
    IN  IF 2 * r < b THEN q
        ELSE IF 2 * r > b THEN q + 1
        ELSE IF q % 2 = 0 THEN q ELSE q + 1

\* Decimal(str(x)) of a whole number x
Dec(x) == x * Scale

\* precision kept by an in-memory Decimal quotient (the context precision)
WeightScale == Scale * Scale * Scale

\* a local assigned once and read many times: F of the value of v
With(v, F(_)) == CHOOSE out \in {F(x) : x \in {v}} : TRUE

\* sum(...) over a sequence of numbers
SumSeq(s) ==
    LET sum[n \in 0..Len(s)] == IF n = 0 THEN 0 ELSE sum[n - 1] + s[n]
    IN  sum[Len(s)]

Range(s) == {s[i] : i \in DOMAIN s}

\* ------------------------------------------------------------ input sets
Tickers == {"AAPL", "BTC"}
CryptoSymbols == {"BTC", "ETH", "SOL", "DOGE", "AVAX"}
Sides == {"buy", "sell"}
SignalQuantities == {10}
SignalPrices == {0, 10}
FillPrices == {8, 12}
StrategyNames == {"alpha", "solo"}
AccountNumbers == <<"A1", "A2">>
AccountSizePairs == {<<60, 40>>, <<50, 25>>}
BrokerPositions == {None, 2}
BrokerEquities == {None, 1000}

\* the RiskConfig field defaults
DefaultLimits == [max_daily_trades |-> 50,
                  max_open_positions |-> 10,
                  max_position_size_pct |-> 5,
                  daily_loss_limit |-> 1000]

\* RiskConfig limits an operator has tightened
TightLimits == [max_daily_trades |-> 2,
                max_open_positions |-> 2,
                max_position_size_pct |-> 5,
                daily_loss_limit |-> 20]

\* risk_checker's fallback equity when the broker cannot be read
DefaultEquity == 100000

\* -------------------------------------------------------- ledger queries
\* Trade.objects.filter(created_at__gte=today_start)
TodayTrades(L, day) == SelectSeq(L, LAMBDA t : t.created_day >= day)

\* sum of realized_pnl over today's filled trades
DailyPnl(L, day) ==
    LET filled == SelectSeq(TodayTrades(L, day), LAMBDA t : t.status = "filled")
    IN  SumSeq([i \in DOMAIN filled |-> filled[i].realized_pnl])

\* filled buys of a symbol that carry a positive cost basis
CostedBuys(L, symbol) ==
    SelectSeq(L, LAMBDA t : /\ t.symbol = symbol
                            /\ t.side = "buy"
                            /\ t.status = "filled"
                            /\ t.cost_basis # None
                            /\ t.cost_basis > 0)

\* total_cost = sum of cost_basis * quantity (in Scale * Scale units)
TotalCost(L, symbol) ==
    LET b == CostedBuys(L, symbol)
    IN  SumSeq([i \in DOMAIN b |-> b[i].cost_basis * b[i].quantity])

\* total_qty = sum of quantity
TotalQty(L, symbol) ==
    LET b == CostedBuys(L, symbol)
    IN  SumSeq([i \in DOMAIN b |-> b[i].quantity])

\* ------------------------------------------------------------- risk gate
\* Reasons are carried as the name of the check that produced them:
\*   kill_switch         "Kill switch is ACTIVE - all trading halted"
\*   market_hours        "Market closed - ..."
\*   daily_drawdown      "Daily drawdown limit reached - ..."
\*   daily_loss_limit    "Daily loss limit hit - ..."
\*   daily_trade_count   "Daily trade limit reached - ..."
\*   max_open_positions  "Max open positions reached - ..."
\*   position_size       "Position too large - ..."
\*   sell_above_cost     "Sell below cost basis rejected - ..."
\*   no_config           "No active risk configuration found"
\*   passed              "All risk checks passed"

_check_kill_switch_ignored(config) == TRUE

_check_kill_switch(config) == ~config.kill_switch_active

_check_market_hours(signal, open) ==
    \/ signal.ticker \in CryptoSymbols
    \/ open

_check_daily_drawdown(config, L, day) ==
    LET daily_pnl == DailyPnl(L, day)
    IN  \/ daily_pnl >= 0
        \/ ~(Abs(daily_pnl) >= Dec(config.daily_loss_limit))

_check_daily_loss_limit(config, L, day) ==
    LET daily_pnl == DailyPnl(L, day)
    IN  ~(daily_pnl < 0 /\ Abs(daily_pnl) >= Dec(config.daily_loss_limit))

_check_daily_trade_count_over(config, L, day) ==
    LET count == Len(TodayTrades(L, day))
    IN  ~(count > config.max_daily_trades)

_check_daily_trade_count(config, L, day) ==
    LET count == Len(TodayTrades(L, day))
    IN  ~(count >= config.max_daily_trades)

\* positions: the broker's position count, or None when the broker read fails
_check_max_open_positions(config, L, positions) ==
    LET buys == {t.symbol : t \in {x \in Range(L) : x.side = "buy" /\ x.status = "filled"}}
        sells == {t.symbol : t \in {x \in Range(L) : x.side = "sell" /\ x.status = "filled"}}
        open_positions == IF positions # None THEN positions
                          ELSE Cardinality(buys \ sells)
    IN  ~(open_positions >= config.max_open_positions)

\* equity: the broker's account equity in dollars, or None when the read fails
_check_position_size(config, signal, equity) ==
    LET qty == Dec(signal.quantity)
        price == Dec(signal.price)
        eq == IF equity # None THEN equity ELSE DefaultEquity
    IN  \/ price <= 0 \/ qty <= 0
        \/ ~(qty * price * 100 > eq * config.max_position_size_pct * Scale * Scale)

_check_sell_above_cost_basis_skipped(signal, L) == TRUE

_check_sell_above_cost_basis(signal, L) ==
    LET signal_price == Dec(signal.price)
        total_cost == TotalCost(L, signal.ticker)
        total_qty == TotalQty(L, signal.ticker)
    IN  \/ signal.action # "sell"
        \/ signal_price <= 0
        \/ total_qty <= 0
        \/ ~(signal_price * total_qty < total_cost)

\* the verdict of one named check
RunCheck(name, config, signal, L, clk, env) ==
    CASE name = "kill_switch" -> _check_kill_switch(config)
      [] name = "market_hours" -> _check_market_hours(signal, clk.open)
      [] name = "daily_drawdown" -> _check_daily_drawdown(config, L, clk.day)
      [] name = "daily_loss_limit" -> _check_daily_loss_limit(config, L, clk.day)
      [] name = "daily_trade_count" -> _check_daily_trade_count(config, L, clk.day)
      [] name = "max_open_positions" -> _check_max_open_positions(config, L, env.positions)
      [] name = "position_size" -> _check_position_size(config, signal, env.equity)
      [] name = "sell_above_cost" -> _check_sell_above_cost_basis(signal, L)

ChecksReordered ==
    <<"kill_switch", "daily_trade_count", "sell_above_cost", "position_size",
      "max_open_positions", "market_hours", "daily_drawdown", "daily_loss_limit">>

\* the checks list of check_trade
Checks ==
    <<"kill_switch", "market_hours", "daily_drawdown", "daily_loss_limit",
      "daily_trade_count", "max_open_positions", "position_size", "sell_above_cost">>

\* the checks that parse signal["price"] with Decimal(str(...))
PriceChecks == {"position_size", "sell_above_cost"}

\* the check that compares Decimal(str(signal["quantity"])) with 0 (after
\* price <= 0 has come out false): the comparison of a NaN raises
QuantityChecks == {"position_size"}

\* for name in checks: first failure short-circuits; Decimal() of a
\* non-numeric price raises InvalidOperation out of check_trade
RECURSIVE FirstFailure(_, _, _, _, _, _)
FirstFailure(names, config, signal, L, clk, env) ==
    IF names = <<>> THEN "passed"
    ELSE IF Head(names) \in PriceChecks /\ signal.price = BadPrice THEN "InvalidOperation"
    ELSE IF Head(names) \in QuantityChecks /\ signal.quantity = NaNQuantity /\ signal.price > 0
         THEN "InvalidOperation"
    ELSE IF ~RunCheck(Head(names), config, signal, L, clk, env) THEN Head(names)
         ELSE FirstFailure(Tail(names), config, signal, L, clk, env)

\* next((c for c in configs if c.is_active), None): index of the row, 0 if none
ActiveConfig(cs) ==
    IF \E i \in DOMAIN cs : cs[i].is_active
    THEN CHOOSE i \in DOMAIN cs : cs[i].is_active /\ \A j \in 1..(i - 1) : ~cs[j].is_active
    ELSE 0

\* (approved, reason), or the exception raised
check_trade(cs, signal, L, clk, env) ==
    LET c == ActiveConfig(cs)
    IN  IF c = 0 THEN [approved |-> FALSE, reason |-> "no_config", raised |-> FALSE]
        ELSE LET f == FirstFailure(Checks, cs[c], signal, L, clk, env)
             IN  IF f = "passed" THEN [approved |-> TRUE, reason |-> "passed", raised |-> FALSE]
                 ELSE [approved |-> FALSE, reason |-> f, raised |-> f = "InvalidOperation"]

\* ------------------------------------------------------ prop-firm account
\* PropFirmAccount.total_pnl
total_pnl(acct, L) ==
    IF acct.broker_account_id = "" THEN 0
    ELSE LET mine == SelectSeq(L, LAMBDA t : /\ t.broker_account_id = acct.broker_account_id
                                             /\ t.status = "filled")
         IN  SumSeq([i \in DOMAIN mine |-> mine[i].realized_pnl])

\* PropFirmAccount.current_equity
current_equity(acct, L) == Dec(acct.account_size) + total_pnl(acct, L)

\* PropFirmAccount.profit_target_amount = account_size * profit_target_pct / 100,
\* kept times 100 (hundredths of a quantum)
profit_target_amount(acct) == Dec(acct.account_size) * acct.profit_target_pct

\* total_drawdown_pct >= max_total_drawdown_pct, with total_drawdown_pct =
\* abs(total_pnl) / account_size * 100 (0 without a loss), cross-multiplied
DrawdownBreached(acct, L) ==
    IF total_pnl(acct, L) >= 0 THEN 0 >= acct.max_total_drawdown_pct
    ELSE Abs(total_pnl(acct, L)) * 100 >= acct.max_total_drawdown_pct * Dec(acct.account_size)

\* PropFirmAccount.check_compliance: always the tuple (compliant, reason)
check_compliance(acct, L) ==
    [type |-> "tuple",
     value |-> IF acct.phase = "failed" THEN <<FALSE, "failed">>
               ELSE IF DrawdownBreached(acct, L) THEN <<FALSE, "drawdown">>
               ELSE <<TRUE, "compliant">>]

\* Python's "x is False": true of the bool False alone, never of a tuple
IsFalse(x) == x.type = "bool" /\ x.value = FALSE

\* ------------------------------------------------------ evaluation engine
\* _halt_account: deactivate, and move to new_phase when it differs
_halt_account(acct, new_phase) == [acct EXCEPT !.is_active = FALSE, !.phase = new_phase]

PassPhasesEvaluationOnly == {"evaluation"}

\* the phases whose profit target is watched
PassPhases == {"evaluation", "verification"}

\* EvaluationManager._evaluate_account: the account row it leaves
_evaluate_account(acct, L) ==
    IF IsFalse(check_compliance(acct, L)) THEN _halt_account(acct, "failed")
    ELSE IF /\ acct.phase \in PassPhases
            /\ profit_target_amount(acct) > 0
            /\ total_pnl(acct, L) * 100 >= profit_target_amount(acct)
         THEN _halt_account(acct, acct.phase)
         ELSE acct

\* EvaluationManager.process_all_accounts: every active account evaluated
process_all_accounts(accts, L) ==
    [i \in DOMAIN accts |-> IF accts[i].is_active THEN _evaluate_account(accts[i], L)
                            ELSE accts[i]]

\* ------------------------------------------------- binary floating point
\* Python's float is an IEEE 754 binary format: Mantissa significant bits,
\* round to nearest with ties to even, gradual underflow below 2^-MinExp and
\* a NaN with which every comparison is false.  A float is the exact ratio
\* n / d in lowest terms (d a power of two), or NaN.
Mantissa == 4
MinExp == 4

\* the smallest positive float is 1 / Ulps
Ulps == 2^(Mantissa - 1 + MinExp)

NaN == [nan |-> TRUE, n |-> 0, d |-> 1]

RECURSIVE Ratio(_, _)
Ratio(n, d) ==
    IF d > 1 /\ n % 2 = 0 THEN Ratio(n \div 2, d \div 2)
    ELSE [nan |-> FALSE, n |-> n, d |-> d]

\* the spacing qn / qd of the floats around n / d > 0
RECURSIVE Quantum(_, _, _, _)
Quantum(n, d, qn, qd) ==
    IF n * qd < 2^Mantissa * qn * d THEN [n |-> qn, d |-> qd]
    ELSE IF qd > 1 THEN Quantum(n, d, qn, qd \div 2)
    ELSE Quantum(n, d, 2 * qn, qd)

\* the float nearest to n / d, for n >= 0 and d > 0
Nearest(n, d) ==
    With(Quantum(n, d, 1, Ulps),
         LAMBDA q : Ratio(RoundDiv(n * q.d, d * q.n) * q.n, q.d))

\* the float an operation with the exact result n / d returns (d # 0)
FloatRound(n, d) ==
    IF (n >= 0) = (d > 0) THEN Nearest(Abs(n), Abs(d))
    ELSE With(Nearest(Abs(n), Abs(d)), LAMBDA x : [x EXCEPT !.n = -x.n])

\* a float literal
Float(n, d) == FloatRound(n, d)

\* x - y
FloatSub(x, y) ==
    IF x.nan \/ y.nan THEN NaN ELSE FloatRound(x.n * y.d - y.n * x.d, x.d * y.d)

\* x * y
FloatMul(x, y) ==
    IF x.nan \/ y.nan THEN NaN ELSE FloatRound(x.n * y.n, x.d * y.d)

\* x / y for y # 0
FloatDiv(x, y) ==
    IF x.nan \/ y.nan THEN NaN ELSE FloatRound(x.n * y.d, x.d * y.n)

\* x <= y, x >= y, x < y on floats
FloatLe(x, y) == ~x.nan /\ ~y.nan /\ x.n * y.d <= y.n * x.d

FloatGe(x, y) == FloatLe(y, x)

FloatLt(x, y) == ~x.nan /\ ~y.nan /\ x.n * y.d < y.n * x.d

\* -------------------------------------------------------- kelly criterion
KellyModes == {"full", "half", "quarter"}

\* KellyCriterionEngine(mode).mode
KellyCriterionEngine(mode) == IF mode \in KellyModes THEN mode ELSE "half"

Returned(x) == [raised |-> "", value |-> x]

Raised(e) == [raised |-> e, value |-> NaN]

\* the factor the mode scales by
ModeFactor(mode) ==
    IF mode = "half" THEN Float(1, 2)
    ELSE IF mode = "quarter" THEN Float(1, 4)
    ELSE Float(1, 1)

\* KellyCriterionEngine.calculate_fraction
calculate_fraction(mode, win_rate, average_win, average_loss) ==
    IF FloatLe(win_rate, Float(0, 1)) \/ FloatGe(win_rate, Float(1, 1))
    THEN Returned(Float(0, 1))
    ELSE IF FloatLe(average_win, Float(0, 1)) \/ FloatLe(average_loss, Float(0, 1))
    THEN Returned(Float(0, 1))
    ELSE With(FloatSub(Float(1, 1), win_rate), LAMBDA loss_prob :
         With(FloatDiv(average_win, average_loss), LAMBDA payoff_ratio :
           IF ~payoff_ratio.nan /\ payoff_ratio.n = 0 THEN Raised("ZeroDivisionError")
           ELSE With(FloatSub(win_rate, FloatDiv(loss_prob, payoff_ratio)),
                     LAMBDA kelly_fraction :
                  IF FloatLe(kelly_fraction, Float(0, 1)) THEN Returned(Float(0, 1))
                  ELSE With(IF mode \in {"half", "quarter"}
                            THEN FloatMul(kelly_fraction, ModeFactor(mode))
                            ELSE kelly_fraction,
                            LAMBDA scaled :
                         \* min(scaled, 1.0)
                         Returned(IF FloatLt(Float(1, 1), scaled) THEN Float(1, 1)
                                  ELSE scaled)))))

\* ----------------------------------------------------- portfolio allocator
\* x + y
FloatAdd(x, y) ==
    IF x.nan \/ y.nan THEN NaN ELSE FloatRound(x.n * y.d + y.n * x.d, x.d * y.d)

\* float(x) of a Decimal x
FloatOfDecimal(x) == FloatRound(x, Scale)

\* sum(xs) of a list of floats
FloatSum(xs) ==
    LET sum[n \in 0..Len(xs)] == IF n = 0 THEN Float(0, 1) ELSE FloatAdd(sum[n - 1], xs[n])
    IN  sum[Len(xs)]

\* a queryset is iterated in Meta.ordering, newest first
Reverse(s) == [i \in DOMAIN s |-> s[Len(s) + 1 - i]]

\* float(t.realized_pnl) of the filled sells of a strategy
RealizedPnls(strategy_name, L) ==
    With(Reverse(SelectSeq(L, LAMBDA t : /\ t.strategy = strategy_name
                                         /\ t.status = "filled"
                                         /\ t.side = "sell")),
         LAMBDA sells : [i \in DOMAIN sells |-> FloatOfDecimal(sells[i].realized_pnl)])

NoPerformance == [none |-> TRUE, win_rate |-> NaN, avg_win |-> NaN, avg_loss |-> NaN]

\* minimum number of resolved trades
MinResolved == 10

\* KellyCriterionEngine.get_historical_performance (live DB mode)
get_historical_performance(strategy_name, L) ==
    With(RealizedPnls(strategy_name, L), LAMBDA pnls :
    With(SelectSeq(pnls, LAMBDA pnl : FloatLt(Float(0, 1), pnl)), LAMBDA winning_trades :
    With(SelectSeq(pnls, LAMBDA pnl : FloatLt(pnl, Float(0, 1))), LAMBDA losers :
    With([i \in DOMAIN losers |-> [losers[i] EXCEPT !.n = Abs(losers[i].n)]],
         LAMBDA losing_trades :
      IF Len(winning_trades) + Len(losing_trades) < MinResolved THEN NoPerformance
      ELSE [none |-> FALSE,
            win_rate |-> FloatRound(Len(winning_trades),
                                    Len(winning_trades) + Len(losing_trades)),
            avg_win |-> IF winning_trades # <<>>
                        THEN FloatDiv(FloatSum(winning_trades),
                                      Float(Len(winning_trades), 1))
                        ELSE Float(0, 1),
            avg_loss |-> IF losing_trades # <<>>
                         THEN FloatDiv(FloatSum(losing_trades),
                                       Float(Len(losing_trades), 1))
                         ELSE Float(0, 1)]))))

\* a Decimal of any precision: the exact ratio n / d, d the least power of ten
RECURSIVE DecimalRatio(_, _)
DecimalRatio(n, d) ==
    IF d > 1 /\ n % 10 = 0 THEN DecimalRatio(n \div 10, d \div 10) ELSE [n |-> n, d |-> d]

\* the unit qn / qd of the last of k significant decimal digits of n / d > 0
RECURSIVE DecimalQuantum(_, _, _, _, _)
DecimalQuantum(n, d, k, qn, qd) ==
    IF n * qd >= 10^k * qn * d
    THEN IF qd > 1 THEN DecimalQuantum(n, d, k, qn, qd \div 10)
         ELSE DecimalQuantum(n, d, k, 10 * qn, qd)
    ELSE IF n * qd < 10^(k - 1) * qn * d
    THEN IF qn > 1 THEN DecimalQuantum(n, d, k, qn \div 10, qd)
         ELSE DecimalQuantum(n, d, k, qn, 10 * qd)
    ELSE [n |-> qn, d |-> qd]

\* str(x) of a float x > 0 read as a Decimal: the shortest decimal string
\* that converts back to x, the nearest to x of that length
RECURSIVE ShortestRepr(_, _)
ShortestRepr(x, k) ==
    With(DecimalQuantum(x.n, x.d, k, 1, 1), LAMBDA q :
      With(<<RoundDiv(x.n * q.d, x.d * q.n), (x.n * q.d) \div (x.d * q.n),
             (x.n * q.d) \div (x.d * q.n) + 1>>,
           LAMBDA digits :
             IF \E i \in 1..3 : FloatRound(digits[i] * q.n, q.d) = x
             THEN With(CHOOSE i \in 1..3 :
                         /\ FloatRound(digits[i] * q.n, q.d) = x
                         /\ \A j \in 1..(i - 1) : FloatRound(digits[j] * q.n, q.d) # x,
                       LAMBDA i : DecimalRatio(digits[i] * q.n, q.d))
             ELSE ShortestRepr(x, k + 1)))

\* Decimal(str(x))
DecimalOfStr(x) == ShortestRepr(x, 1)

\* x + y on Decimals
DecimalAdd(x, y) ==
    IF x.d >= y.d THEN DecimalRatio(x.n + y.n * (x.d \div y.d), x.d)
    ELSE DecimalRatio(x.n * (y.d \div x.d) + y.n, y.d)

\* the score of one active strategy: the base score and the expectancy bonus
StrategyScore(name, L) ==
    With(get_historical_performance(name, L), LAMBDA perf :
      IF perf.none THEN DecimalRatio(1, 1)
      ELSE With(FloatSub(FloatMul(perf.win_rate, perf.avg_win),
                         FloatMul(FloatSub(Float(1, 1), perf.win_rate), perf.avg_loss)),
                LAMBDA expectancy :
             IF FloatLt(Float(0, 1), expectancy)
             THEN DecimalAdd(DecimalRatio(1, 1), DecimalOfStr(expectancy))
             ELSE DecimalRatio(1, 1)))

\* score / total_score, to the precision of the decimal context
ScoreWeight(score, total_score) ==
    IF score.d >= total_score.d
    THEN RoundDiv(score.n * WeightScale, total_score.n * (score.d \div total_score.d))
    ELSE RoundDiv(score.n * (total_score.d \div score.d) * WeightScale, total_score.n)

\* PortfolioAllocator(total_equity).get_strategy_allocations(): the locals
\* at the return; allocations is keyed by strategy name, in 1 / WeightScale
\* of a Decimal quantum
get_strategy_allocations(total_equity, strats, L) ==
    With(Reverse(SelectSeq(strats, LAMBDA strat : strat.is_active)), LAMBDA active_strats :
      IF active_strats = <<>>
      THEN [scores |-> <<>>, strategy_scores |-> <<>>, total_score |-> DecimalRatio(0, 1),
            allocations |-> <<>>]
      ELSE With([i \in DOMAIN active_strats |-> StrategyScore(active_strats[i].name, L)],
                LAMBDA scores :
           With([name \in {active_strats[i].name : i \in DOMAIN active_strats} |->
                   scores[CHOOSE i \in DOMAIN active_strats :
                            /\ active_strats[i].name = name
                            /\ \A j \in DOMAIN active_strats :
                                 active_strats[j].name = name => j <= i]],
                LAMBDA strategy_scores :
           With(LET sum[n \in 0..Len(scores)] ==
                        IF n = 0 THEN DecimalRatio(0, 1)
                        ELSE DecimalAdd(sum[n - 1], scores[n])
                IN  sum[Len(scores)],
                LAMBDA total_score :
             [scores |-> scores, strategy_scores |-> strategy_scores,
              total_score |-> total_score,
              allocations |-> [name \in DOMAIN strategy_scores |->
                                 total_equity * ScoreWeight(strategy_scores[name],
                                                            total_score)]]))))

\* ------------------------------------------------------------ cost basis
\* _get_average_cost_basis: the quantized average, None without costed buys
_get_average_cost_basis(L, symbol) ==
    IF TotalQty(L, symbol) > 0
    THEN RoundDiv(TotalCost(L, symbol), TotalQty(L, symbol))
    ELSE None

SellProceeds(L, symbol, fill_price, quantity) ==
    RoundDiv(fill_price * quantity, Scale * WeightScale)

\* (fill_price - avg_cost) * quantity, quantized to the realized_pnl field;
\* quantity is the in-memory trade.quantity, in 1/WeightScale of a quantum
SellPnl(L, symbol, fill_price, quantity) ==
    RoundDiv((fill_price * TotalQty(L, symbol) - TotalCost(L, symbol)) * quantity,
             TotalQty(L, symbol) * Scale * WeightScale)

\* trade: the row as saved; quantity: trade.quantity as the caller holds it
\* in memory (not yet quantized when the row was just created)
_update_cost_basis(trade, quantity, L) ==
    IF trade.side = "buy"
    THEN [trade EXCEPT !.cost_basis = trade.fill_price]
    ELSE IF trade.side = "sell"
    THEN IF TotalQty(L, trade.symbol) > 0 /\ TotalCost(L, trade.symbol) > 0
         THEN [trade EXCEPT !.cost_basis = _get_average_cost_basis(L, trade.symbol),
                            !.realized_pnl = SellPnl(L, trade.symbol, trade.fill_price,
                                                     quantity)]
         ELSE [trade EXCEPT !.realized_pnl = 0]
    ELSE trade

\* ---------------------------------------------------------- broker client
\* keyword parameters of AlpacaClient.submit_order
AlpacaSubmitOrderParams ==
    {"symbol", "qty", "side", "order_type", "time_in_force", "limit_price", "stop_price"}

\* keyword arguments IBRoutingBroker.submit_block_order passes on
BlockOrderKwargs ==
    {"symbol", "qty", "side", "order_type", "time_in_force", "limit_price", "stop_price",
     "client_order_id"}

\* the client classes ib_routing.AlpacaClient can be bound to: the class of
\* alpaca_client.py, or the MagicMock the tests bind (accepts any keyword)
ClientClasses == {"AlpacaClient", "MagicMock"}

AcceptedKwargs(cls) ==
    IF cls = "AlpacaClient" THEN AlpacaSubmitOrderParams ELSE BlockOrderKwargs

\* how the broker would answer the master order
Dispositions ==
    {[kind |-> "filled", price |-> p] : p \in FillPrices}
    \cup {[kind |-> "accepted", price |-> None], [kind |-> "error", price |-> None]}

\* no order reaches the broker
NoDisposition == [kind |-> "none", price |-> None]

submit_block_order_unraised(cls, disposition, next_id) ==
    [raised |-> "", order_id |-> next_id,
     filled_avg_price |-> IF disposition.price # None THEN Dec(disposition.price) ELSE None]

\* submit_block_order: the result dict, or the exception raised
submit_block_order(cls, disposition, next_id) ==
    IF ~(BlockOrderKwargs \subseteq AcceptedKwargs(cls))
    THEN [raised |-> "TypeError", order_id |-> NoOrder, filled_avg_price |-> None]
    ELSE IF disposition.kind = "error"
    THEN [raised |-> "BrokerError", order_id |-> NoOrder, filled_avg_price |-> None]
    ELSE [raised |-> "", order_id |-> next_id,
          filled_avg_price |-> IF disposition.price # None THEN Dec(disposition.price)
                               ELSE None]

\* ---------------------------------------------------------------- executor
\* the milliseconds that pass before the next Trade.objects.create of a call,
\* counted from the stamp of the newest row: 0 is the same millisecond
NextElapsed(elapsed) == IF elapsed = <<>> THEN 1 ELSE Head(elapsed)

RestElapsed(elapsed) == IF elapsed = <<>> THEN <<>> ELSE Tail(elapsed)

\* generate_trade_id: int(time.time() * 1000), as milliseconds since the
\* first row of the ledger
generate_trade_id(L, elapsed) ==
    (IF L = <<>> THEN 0 ELSE L[Len(L)].trade_id) + NextElapsed(elapsed)

\* trade_id is unique=True: the insert raises when a row carries the stamp
Duplicate(L, trade_id) == \E i \in DOMAIN L : L[i].trade_id = trade_id

\* Trade.objects.create(...) with the model's field defaults
NewTrade(trade_id, signal, clk, quantity, status, account, order_id, error, approved, reason) ==
    [trade_id |-> trade_id,
     symbol |-> signal.ticker,
     side |-> signal.action,
     quantity |-> quantity,
     status |-> status,
     fill_price |-> None,
     cost_basis |-> None,
     realized_pnl |-> 0,
     strategy |-> signal.strategy,
     broker_order_id |-> order_id,
     broker_account_id |-> account,
     error_message |-> error,
     risk_approved |-> approved,
     risk_reason |-> reason,
     created_day |-> clk.day]

\* account.account_number if account else ""  (0 stands for the None account)
AccountNumberOf(accts, a) == IF a = 0 THEN "" ELSE accts[a].account_number

\* PropFirmAccount.objects.filter(account_number__in=..., is_active=True),
\* newest first (Meta.ordering); [None] when there is none
CandidateAccounts(strats, accts, signal) ==
    LET st == IF signal.strategy \in DOMAIN strats THEN strats[signal.strategy]
              ELSE [is_active |-> FALSE, account_numbers |-> {}]
        hit(i) == /\ st.is_active
                  /\ accts[i].account_number \in st.account_numbers
                  /\ accts[i].is_active
        n == Len(accts)
        newest_first == [k \in 1..n |-> n + 1 - k]
        found == SelectSeq(newest_first, hit)
    IN  IF found = <<>> THEN <<0>> ELSE found

\* the names of the checks that fail for this input, each evaluated on its own
FailingChecks(cs, signal, L, clk, env) ==
    IF ActiveConfig(cs) = 0 THEN {}
    ELSE {n \in Range(Checks) :
            /\ ~(n \in PriceChecks /\ signal.price = BadPrice)
            /\ ~(n \in QuantityChecks /\ signal.quantity = NaNQuantity)
            /\ ~RunCheck(n, cs[ActiveConfig(cs)], signal, L, clk, env)}

RejectedStubOfSignalQuantity(trade_id, signal, clk, account_number, reason) ==
    NewTrade(trade_id, signal, clk, Dec(signal.quantity), "rejected", account_number, NoOrder,
             reason, FALSE, reason)

\* the Trade a rejected account leaves: quantity 0, the gate's reason
RejectedStub(trade_id, signal, clk, account_number, reason) ==
    NewTrade(trade_id, signal, clk, 0, "rejected", account_number, NoOrder, reason, FALSE,
             reason)

\* step 1: risk checks per account; a rejected account leaves a stub, and
\* the call ends in an exception when a check or the stub's insert raises
RECURSIVE GateLoop(_, _, _, _, _, _, _, _)
GateLoop(cands, accts, cs, signal, L, clk, env, elapsed) ==
    IF cands = <<>>
    THEN [L |-> L, approved |-> <<>>, gate |-> <<>>, raised |-> FALSE, elapsed |-> elapsed]
    ELSE With(check_trade(cs, signal, L, clk, env), LAMBDA r :
           LET a == Head(cands)
               entry == [account |-> a, approved |-> r.approved, reason |-> r.reason,
                         failing |-> FailingChecks(cs, signal, L, clk, env),
                         count |-> Len(TodayTrades(L, clk.day))]
               stub == RejectedStub(generate_trade_id(L, elapsed), signal, clk,
                                    AccountNumberOf(accts, a), r.reason)
           IN  IF r.raised \/ (~r.approved /\ Duplicate(L, stub.trade_id))
               THEN [L |-> L, approved |-> <<>>, gate |-> <<entry>>, raised |-> TRUE,
                     elapsed |-> elapsed]
               ELSE With(IF r.approved THEN L ELSE Append(L, stub), LAMBDA L1 :
                      With(GateLoop(Tail(cands), accts, cs, signal, L1, clk, env,
                                    IF r.approved THEN elapsed ELSE RestElapsed(elapsed)),
                           LAMBDA rest :
                             [L |-> rest.L,
                              approved |-> IF r.approved THEN <<a>> \o rest.approved
                                           ELSE rest.approved,
                              gate |-> <<entry>> \o rest.gate,
                              raised |-> rest.raised,
                              elapsed |-> rest.elapsed])))

\* total_approved_equity over the PropFirmAccount members of the block
TotalApprovedEquity(approved, accts, L) ==
    LET s == SumSeq([i \in DOMAIN approved |->
                       IF approved[i] = 0 THEN 0 ELSE current_equity(accts[approved[i]], L)])
    IN  IF s <= 0 THEN Dec(100) ELSE s

AccountQuantityEqualSplit(a, accts, L, total_quantity, total_approved_equity) ==
    IF a = 0 THEN total_quantity * WeightScale
    ELSE RoundDiv(total_quantity * WeightScale, 2)

\* acct_qty for one approved account, an in-memory Decimal (in 1/WeightScale
\* of a quantum); Trade.quantity stores it quantized
AccountQuantity(a, accts, L, total_quantity, total_approved_equity) ==
    IF a = 0 THEN total_quantity * WeightScale
    ELSE LET weight == RoundDiv(current_equity(accts[a], L) * WeightScale,
                                total_approved_equity)
         IN  total_quantity * weight

\* step 4: one Trade per approved account from the master result; the loop
\* ends in an exception when an insert raises
RECURSIVE Distribute(_, _, _, _, _, _, _, _, _, _)
Distribute(approved, accts, signal, L, clk, total_equity, status, result, error, elapsed) ==
    IF approved = <<>> THEN [L |-> L, raised |-> FALSE]
    ELSE LET a == Head(approved)
             acct_qty == AccountQuantity(a, accts, L, Dec(signal.quantity), total_equity)
             created == NewTrade(generate_trade_id(L, elapsed), signal, clk,
                                 RoundDiv(acct_qty, WeightScale), status,
                                 AccountNumberOf(accts, a), result.order_id, error, TRUE,
                                 "Passed Block Check")
             L1 == Append(L, created)
             filled == [created EXCEPT !.fill_price = result.filled_avg_price]
             saved == IF status = "filled" /\ result.filled_avg_price # None
                      THEN _update_cost_basis(filled, acct_qty, L1)
                      ELSE created
         IN  IF Duplicate(L, created.trade_id) THEN [L |-> L, raised |-> TRUE]
             ELSE With(Append(L, saved), LAMBDA L2 :
                    Distribute(Tail(approved), accts, signal, L2, clk, total_equity, status,
                               result, error, RestElapsed(elapsed)))

\* execute_signal as a whole: the ledger after the call and what the call did
execute_signal(signal, strats, accts, cs, L, ords, clk, cls, env, disposition, elapsed) ==
    With(GateLoop(CandidateAccounts(strats, accts, signal), accts, cs, signal, L, clk, env,
                  elapsed),
         LAMBDA g :
      IF g.raised \/ g.approved = <<>>
      THEN [L |-> g.L, orders |-> ords, gate |-> g.gate, submits |-> 0,
            raised |-> g.raised, first |-> Len(L) + 1]
      ELSE With(submit_block_order(cls, disposition, Len(ords) + 1), LAMBDA result :
             With(TotalApprovedEquity(g.approved, accts, g.L), LAMBDA total_equity :
               LET status == IF result.raised # "" THEN "error"
                             ELSE IF result.filled_avg_price # None THEN "filled"
                             ELSE "submitted"
               IN  With(Distribute(g.approved, accts, signal, g.L, clk, total_equity,
                                   status, result, result.raised, g.elapsed),
                        LAMBDA rows :
                   [L |-> rows.L,
                    orders |-> IF result.raised = ""
                               THEN Append(ords, [symbol |-> signal.ticker,
                                                  side |-> signal.action,
                                                  qty |-> Dec(signal.quantity),
                                                  filled_avg_price |-> result.filled_avg_price,
                                                  state |-> IF result.filled_avg_price # None
                                                            THEN "filled" ELSE "open"])
                               ELSE ords,
                    gate |-> g.gate, submits |-> 1, raised |-> rows.raised,
                    first |-> Len(L) + 1]))))

VARIABLES
    configs,     \* RiskConfig rows, in primary-key order
    accounts,    \* PropFirmAccount rows, in primary-key order
    strategies,  \* Strategy rows: name -> [is_active, account_numbers]; in front of
                 \* the allocator the rows in creation order (names may repeat)
    trades,      \* Trade rows (the ledger), in creation order
    events,      \* WebhookEvent rows, in creation order
    orders,      \* the broker's orders: order id -> order
    clock,       \* [day, open]: current day and whether the stock market is open
    client,      \* the broker client class bound in ib_routing
    last         \* outcome of the last operation (what it returned / answered)

vars == <<configs, accounts, strategies, trades, events, orders, clock, client, last>>

\* ------------------------------------------------------------------ state
\* a RiskConfig row
ConfigRow(name, kill, limits) ==
    [name |-> name, is_active |-> TRUE, kill_switch_active |-> kill,
     max_daily_trades |-> limits.max_daily_trades,
     max_open_positions |-> limits.max_open_positions,
     max_position_size_pct |-> limits.max_position_size_pct,
     daily_loss_limit |-> limits.daily_loss_limit]

\* RiskConfig.objects.create(name="default") with the field defaults
DefaultConfigRow == ConfigRow("default", FALSE, DefaultLimits)

\* PropFirmAccount row
AccountRow(number, broker_id, size) ==
    [account_number |-> number, broker_account_id |-> broker_id,
     is_active |-> TRUE, phase |-> "evaluation", account_size |-> size,
     max_total_drawdown_pct |-> 10, profit_target_pct |-> 10]

NoSignal == [ticker |-> "", action |-> "", quantity |-> 0, price |-> 0, strategy |-> ""]

\* no request body
NoPayload == [ticker |-> "", action |-> "", quantity |-> "", price |-> 0, strategy |-> ""]

\* the broker's readings when both reads fail
NilEnv == [positions |-> None, equity |-> None]

Idle == [op |-> "idle", code |-> 0, signal |-> NoSignal, env |-> NilEnv, gate |-> <<>>,
         submits |-> 0, raised |-> FALSE, first |-> 1, disposition |-> NoDisposition,
         order_id |-> NoOrder, token |-> "", payload |-> NoPayload, halted |-> {}]

Signals(prices) ==
    [ticker : Tickers, action : Sides, quantity : SignalQuantities, price : prices,
     strategy : StrategyNames]

Envs == [positions : BrokerPositions, equity : BrokerEquities]

InitWith(sizePairs, classes, limits) ==
    /\ configs = <<ConfigRow("default", FALSE, limits)>>
    /\ \E sizes \in sizePairs :
          accounts = [i \in 1..2 |-> AccountRow(AccountNumbers[i], AccountNumbers[i], sizes[i])]
    /\ strategies = [alpha |-> [is_active |-> TRUE, account_numbers |-> {"A1", "A2"}],
                     solo |-> [is_active |-> TRUE, account_numbers |-> {}]]
    /\ events = <<>>
    /\ clock = [day |-> 0, open |-> TRUE]
    /\ client \in classes
    /\ last = Idle

Init ==
    /\ InitWith(AccountSizePairs, ClientClasses, DefaultLimits)
    /\ trades = <<>>
    /\ orders = <<>>

\* ---------------------------------------------------------------- actions
\* the broker answers only a call that submits an order
DispositionsFor(signal, env, disps, elapsed) ==
    With(GateLoop(CandidateAccounts(strategies, accounts, signal), accounts, configs,
                  signal, trades, clock, env, elapsed),
         LAMBDA g : IF g.raised \/ g.approved = <<>> THEN {NoDisposition} ELSE disps)

\* room in the bounded ledger for one call's rows (one per candidate account)
HasRoom(signal, room) ==
    Len(trades) + Len(CandidateAccounts(strategies, accounts, signal)) <= room

\* what a call of execute_signal leaves in `last`
CallOutcome(op, code, signal, env, d, r) ==
    [op |-> op, code |-> code, signal |-> signal, env |-> env, gate |-> r.gate,
     submits |-> r.submits,
     raised |-> r.raised, first |-> r.first, disposition |-> d,
     order_id |-> IF Len(r.orders) > Len(orders) THEN Len(r.orders) ELSE NoOrder,
     token |-> "", payload |-> NoPayload, halted |-> {}]

\* run_strategies: an actionable signal dispatched through execute_signal
RunStrategies(signals, envs, disps, elapses, room) ==
    \E signal \in signals, env \in envs, elapsed \in elapses :
      \E d \in DispositionsFor(signal, env, disps, elapsed) :
        /\ HasRoom(signal, room)
        /\ \E r \in {execute_signal(signal, strategies, accounts, configs, trades, orders,
                                    clock, client, env, d, elapsed)} :
               /\ trades' = r.L
               /\ orders' = r.orders
               /\ last' = CallOutcome("run_strategies", 0, signal, env, d, r)
        /\ UNCHANGED <<configs, accounts, strategies, events, clock, client>>

\* settings.WEBHOOK_AUTH_TOKEN (the default of base.py)
WEBHOOK_AUTH_TOKEN == "dev-token-change-me"

\* X-API-Token headers a request can carry ("" when the header is absent)
Tokens == {WEBHOOK_AUTH_TOKEN, "wrong-token", ""}

\* choices of the serializer's action field
ActionChoices == {"buy", "sell"}

\* float(value) of a quantity string: ValueError, or an IEEE double
float(value) ==
    CASE value = "10" -> [raised |-> FALSE, nan |-> FALSE, number |-> 10]
      [] value = "0" -> [raised |-> FALSE, nan |-> FALSE, number |-> 0]
      [] value = "-5" -> [raised |-> FALSE, nan |-> FALSE, number |-> -5]
      [] value = "nan" -> [raised |-> FALSE, nan |-> TRUE, number |-> 0]
      [] OTHER -> [raised |-> TRUE, nan |-> FALSE, number |-> 0]

\* validate_quantity: qty <= 0 is false for every comparison with a NaN
validate_quantity(value) ==
    LET qty == float(value)
    IN  /\ ~qty.raised
        /\ ~(~qty.nan /\ qty.number <= 0)

\* serializer.is_valid()
is_valid(payload) ==
    /\ payload.action \in ActionChoices
    /\ validate_quantity(payload.quantity)

\* serializer.validated_data as execute_signal reads it: quantity stays the
\* string and goes through Decimal(str(...))
validated_data(payload) ==
    [ticker |-> payload.ticker, action |-> payload.action,
     quantity |-> IF float(payload.quantity).nan THEN NaNQuantity
                  ELSE float(payload.quantity).number,
     price |-> payload.price, strategy |-> payload.strategy]

\* WebhookReceiveView.post, X-API-Token wrong: 401 before anything is logged
WebhookUnauthorized(payloads) ==
    \E token \in Tokens, payload \in payloads :
        /\ token # WEBHOOK_AUTH_TOKEN
        /\ last' = [Idle EXCEPT !.op = "webhook", !.code = 401, !.first = Len(trades) + 1,
                                !.token = token, !.payload = payload]
        /\ UNCHANGED <<configs, accounts, strategies, trades, events, orders, clock, client>>

\* WebhookReceiveView.post, token accepted, serializer.is_valid() false: 400
WebhookInvalid(payloads) ==
    \E token \in Tokens, payload \in payloads :
        /\ token = WEBHOOK_AUTH_TOKEN
        /\ ~is_valid(payload)
        /\ Len(events) < MaxEvents
        /\ events' = Append(events, [status |-> "rejected", ticker |-> ""])
        /\ last' = [Idle EXCEPT !.op = "webhook", !.code = 400, !.first = Len(trades) + 1,
                                !.token = token, !.payload = payload]
        /\ UNCHANGED <<configs, accounts, strategies, trades, orders, clock, client>>

\* WebhookReceiveView.post, token accepted, payload valid: dispatch
WebhookDispatch(payloads, envs, disps, elapses) ==
    \E token \in Tokens, payload \in payloads, env \in envs, elapsed \in elapses :
      /\ token = WEBHOOK_AUTH_TOKEN
      /\ is_valid(payload)
      /\ Len(events) < MaxEvents
      /\ \E signal \in {validated_data(payload)} :
        \E d \in DispositionsFor(signal, env, disps, elapsed) :
          /\ HasRoom(signal, MaxTrades)
          /\ \E r \in {execute_signal(signal, strategies, accounts, configs, trades,
                                      orders, clock, client, env, d, elapsed)} :
                 /\ trades' = r.L
                 /\ orders' = r.orders
                 /\ events' = Append(events,
                                     [status |-> IF r.raised THEN "error" ELSE "dispatched",
                                      ticker |-> signal.ticker])
                 /\ last' = [CallOutcome("webhook", IF r.raised THEN 500 ELSE 200,
                                         signal, env, d, r)
                               EXCEPT !.token = token, !.payload = payload]
          /\ UNCHANGED <<configs, accounts, strategies, clock, client>>

\* ------------------------------------------------------ broker fill stream
FirstUnfilledTradeOfOrder(L, order_id) ==
    IF \E i \in DOMAIN L : L[i].broker_order_id = order_id /\ L[i].status # "filled"
    THEN CHOOSE i \in DOMAIN L :
            /\ L[i].broker_order_id = order_id /\ L[i].status # "filled"
            /\ \A j \in DOMAIN L :
                  (L[j].broker_order_id = order_id /\ L[j].status # "filled") => j <= i
    ELSE IF \E i \in DOMAIN L : L[i].broker_order_id = order_id
    THEN CHOOSE i \in DOMAIN L :
            /\ L[i].broker_order_id = order_id
            /\ \A j \in DOMAIN L : L[j].broker_order_id = order_id => j <= i
    ELSE 0

\* Trade.objects.filter(broker_order_id=order_id).first(): newest row first
\* (Meta.ordering = -created_at); 0 when no row matches
FirstTradeOfOrder(L, order_id) ==
    IF \E i \in DOMAIN L : L[i].broker_order_id = order_id
    THEN CHOOSE i \in DOMAIN L :
            /\ L[i].broker_order_id = order_id
            /\ \A j \in DOMAIN L : L[j].broker_order_id = order_id => j <= i
    ELSE 0

\* _update_cost_basis on a sell that has no fill_price yet: None - avg_cost
\* raises TypeError
CostBasisRaises(trade, L) ==
    /\ trade.side = "sell"
    /\ trade.fill_price = None
    /\ TotalQty(L, trade.symbol) > 0
    /\ TotalCost(L, trade.symbol) > 0

\* trade_update_handler: the ledger after one stream message; an exception
\* is logged and the row is not saved
trade_update_handler(L, event, order_id, filled_avg_price, filled_qty) ==
    LET i == FirstTradeOfOrder(L, order_id)
    IN  IF i = 0 THEN L
        ELSE IF event \in {"fill", "partial_fill"}
        THEN LET t1 == [L[i] EXCEPT !.status = IF event = "fill" THEN "filled"
                                                ELSE "partial_fill"]
                 t2 == IF filled_avg_price # None
                       THEN [t1 EXCEPT !.fill_price = filled_avg_price] ELSE t1
                 t3 == IF filled_qty # None
                       THEN [t2 EXCEPT !.quantity = filled_qty] ELSE t2
             IN  IF CostBasisRaises(t3, L) THEN L
                 ELSE [L EXCEPT ![i] = _update_cost_basis(t3, t3.quantity * WeightScale, L)]
        ELSE IF event \in {"rejected", "canceled", "suspended"}
        THEN [L EXCEPT ![i].status = event]
        ELSE L

\* the messages the broker can send about an order it holds
StreamMessages(ords, o) ==
    IF o \notin DOMAIN ords
    THEN {[event |-> "fill", price |-> Dec(p), qty |-> Dec(1), state |-> "none"] :
             p \in FillPrices}
    ELSE IF ords[o].state = "open"
    THEN {[event |-> "fill", price |-> Dec(p), qty |-> ords[o].qty, state |-> "filled"] :
             p \in FillPrices}
         \cup {[event |-> "partial_fill", price |-> Dec(p), qty |-> RoundDiv(ords[o].qty, 2),
                state |-> "partial"] : p \in FillPrices}
         \cup {[event |-> e, price |-> None, qty |-> None, state |-> "closed"] :
                 e \in {"rejected", "canceled"}}
    ELSE IF ords[o].state = "partial"
    THEN {[event |-> "fill", price |-> Dec(p), qty |-> ords[o].qty, state |-> "filled"] :
             p \in FillPrices}
    ELSE IF ords[o].state = "filled"
    THEN {[event |-> "fill", price |-> ords[o].filled_avg_price, qty |-> ords[o].qty,
           state |-> "filled"]}
    ELSE {}

\* run_alpaca_stream: one trade_updates message handled
TradeUpdate(kinds) ==
    \E o \in 1..(Len(orders) + 1) :
      \E m \in StreamMessages(orders, o) :
        /\ m.event \in kinds
        /\ trades' = trade_update_handler(trades, m.event, o, m.price, m.qty)
        /\ orders' = IF o \in DOMAIN orders
                     THEN [orders EXCEPT ![o].state = m.state,
                                         ![o].filled_avg_price =
                                             IF m.price # None THEN m.price ELSE @]
                     ELSE orders
        /\ last' = [Idle EXCEPT !.op = "trade_update", !.first = Len(trades) + 1,
                                !.disposition = [kind |-> m.event, price |-> m.price],
                                !.order_id = o]
        /\ UNCHANGED <<configs, accounts, strategies, events, clock, client>>

\* dashboard kill_switch: toggles the row _get_risk_config() returns
KillSwitch ==
    /\ IF \E i \in DOMAIN configs : configs[i].name = "default"
       THEN LET i == CHOOSE k \in DOMAIN configs : configs[k].name = "default"
            IN  configs' = [configs EXCEPT ![i].kill_switch_active = ~@]
       ELSE configs' = Append(configs, [DefaultConfigRow EXCEPT !.kill_switch_active = TRUE])
    /\ last' = [Idle EXCEPT !.first = Len(trades) + 1]
    /\ UNCHANGED <<accounts, strategies, trades, events, orders, clock, client>>

\* time passing: the market closes for the day, then the next day's session opens
Tick ==
    /\ \/ /\ clock.open
          /\ clock' = [clock EXCEPT !.open = FALSE]
       \/ /\ ~clock.open
          /\ clock.day < MaxDay
          /\ clock' = [day |-> clock.day + 1, open |-> TRUE]
    /\ last' = [Idle EXCEPT !.first = Len(trades) + 1]
    /\ UNCHANGED <<configs, accounts, strategies, trades, events, orders, client>>

\* sweep_drawdown_warnings: the periodic task; its account changes are those
\* of process_all_accounts
Sweep ==
    /\ accounts' = process_all_accounts(accounts, trades)
    /\ last' = [Idle EXCEPT !.op = "sweep", !.first = Len(trades) + 1,
                            !.halted = {i \in DOMAIN accounts :
                                          accounts[i].is_active /\ ~accounts'[i].is_active}]
    /\ UNCHANGED <<configs, strategies, trades, events, orders, clock, client>>

\* execute_signal overlapping the periodic task: the call has loaded its
\* candidate accounts when the sweep runs, and goes on with the rows it holds
RunStrategiesAcrossSweep(signals, envs, disps, elapses, room) ==
    \E signal \in signals, env \in envs, elapsed \in elapses :
      \E d \in DispositionsFor(signal, env, disps, elapsed) :
        /\ HasRoom(signal, room)
        /\ accounts' = process_all_accounts(accounts, trades)
        /\ \E r \in {execute_signal(signal, strategies, accounts, configs, trades, orders,
                                    clock, client, env, d, elapsed)} :
               /\ trades' = r.L
               /\ orders' = r.orders
               /\ last' = [CallOutcome("run_strategies", 0, signal, env, d, r)
                             EXCEPT !.halted = {i \in DOMAIN accounts :
                                                  accounts[i].is_active
                                                  /\ ~accounts'[i].is_active}]
        /\ UNCHANGED <<configs, strategies, events, clock, client>>

\* KellyCriterionEngine(mode).calculate_fraction(win_rate, average_win,
\* average_loss) on the arguments at hand
CalculateFraction ==
    /\ last.op = "engine"
    /\ last' = [op |-> "calculate_fraction", mode |-> last.mode, win_rate |-> last.win_rate,
                average_win |-> last.average_win, average_loss |-> last.average_loss,
                result |-> calculate_fraction(KellyCriterionEngine(last.mode),
                                              last.win_rate, last.average_win,
                                              last.average_loss)]
    /\ UNCHANGED <<configs, accounts, strategies, trades, events, orders, clock, client>>

\* PortfolioAllocator(total_equity).get_strategy_allocations() on the Strategy
\* rows and the ledger at hand
Allocate ==
    /\ last.op = "allocator"
    /\ last' = [op |-> "get_strategy_allocations", total_equity |-> last.total_equity,
                result |-> get_strategy_allocations(last.total_equity, strategies, trades)]
    /\ UNCHANGED <<configs, accounts, strategies, trades, events, orders, clock, client>>

\* ------------------------------------------------------------ input scopes
\* every insert of a call falls in a later millisecond than the newest row
Later == {<<>>}

Filled(p) == [kind |-> "filled", price |-> p]

Accepted == [kind |-> "accepted", price |-> None]

\* trade_updates events the handler acts on
StreamEvents == {"fill", "partial_fill", "rejected", "canceled"}

LedgerSignals ==
    [ticker : {"AAPL"}, action : Sides, quantity : SignalQuantities, price : {10},
     strategy : StrategyNames]

GateSignals ==
    [ticker : Tickers, action : Sides, quantity : SignalQuantities, price : SignalPrices,
     strategy : StrategyNames]

\* request bodies: an action outside the choices, quantities that are
\* positive, zero, negative, not a number in either sense
WebhookPayloads ==
    [ticker : {"AAPL"}, action : {"buy", "hold"}, quantity : {"10", "0", "-5", "abc", "nan"},
     price : {10, BadPrice}, strategy : StrategyNames]

\* the executor, the ledger and the fill stream
Next ==
    \/ RunStrategies(LedgerSignals, {NilEnv}, Dispositions, Later, MaxTrades)
    \/ TradeUpdate({"fill"})

Spec == Init /\ [][Next]_vars

\* ledgers earlier activity leaves behind: nothing; a buy filled at 12; that
\* buy and a market sell filled at 8 (a realized loss); a buy filled at 8 and
\* a two-account market sell the stream reports filled at 12 (a realized gain
\* on the newest row's account)
BuySignal == [ticker |-> "AAPL", action |-> "buy", quantity |-> 10, price |-> 10,
              strategy |-> "solo"]

MarketSell == [ticker |-> "AAPL", action |-> "sell", quantity |-> 10, price |-> 0,
               strategy |-> "solo"]

BlockMarketSell == [MarketSell EXCEPT !.strategy = "alpha"]

Call(signal, disposition) == [kind |-> "call", signal |-> signal, disposition |-> disposition]

StreamFill(order_id, price) == [kind |-> "fill", order_id |-> order_id, price |-> price]

\* the ledger and the broker's orders after a sequence of calls and fills
AfterSteps(steps, strats, accts, cs, clk) ==
    LET run[n \in 0..Len(steps)] ==
            IF n = 0 THEN [L |-> <<>>, orders |-> <<>>]
            ELSE With(run[n - 1], LAMBDA before :
                   IF steps[n].kind = "call"
                   THEN execute_signal(steps[n].signal, strats, accts, cs, before.L,
                                       before.orders, clk, "MagicMock", NilEnv,
                                       steps[n].disposition, <<>>)
                   ELSE [L |-> trade_update_handler(before.L, "fill", steps[n].order_id,
                                                    Dec(steps[n].price),
                                                    before.orders[steps[n].order_id].qty),
                         orders |-> [before.orders EXCEPT
                                       ![steps[n].order_id].state = "filled",
                                       ![steps[n].order_id].filled_avg_price =
                                           Dec(steps[n].price)]])
    IN  run[Len(steps)]

GateHistories ==
    {<<>>,
     <<Call(BuySignal, Filled(12))>>,
     <<Call(BuySignal, Filled(12)), Call(MarketSell, Filled(8))>>,
     <<Call(BuySignal, Filled(8)), Call(BlockMarketSell, Accepted), StreamFill(2, 12)>>}

GateInit ==
    /\ InitWith(AccountSizePairs, {"MagicMock"}, TightLimits)
    /\ \E h \in GateHistories :
          \E r \in {AfterSteps(h, strategies, accounts, configs, clock)} :
              trades = r.L /\ orders = r.orders

\* the ledger is one of those the histories leave
InHistoryLedger ==
    \E h \in GateHistories :
        trades = AfterSteps(h, strategies, accounts, configs, [day |-> 0, open |-> TRUE]).L

\* the risk gate under the kill switch, the clock and the broker's readings:
\* a signal arrives in each history's ledger under every setting
GateNext ==
    \/ InHistoryLedger /\ RunStrategies(GateSignals, Envs, {Filled(12)}, Later,
                                        2 * MaxTrades)
    \/ KillSwitch
    \/ Tick

GateSpec == GateInit /\ [][GateNext]_vars

\* orders left open at the broker and everything the stream reports on them:
\* block buys and single sells, in an empty ledger or after a buy filled at 8
StreamHistories == {<<>>, <<Call(BuySignal, Filled(8))>>}

StreamSignals ==
    {[BuySignal EXCEPT !.strategy = "alpha"], [MarketSell EXCEPT !.price = 10]}

StreamInit ==
    /\ InitWith(AccountSizePairs, {"MagicMock"}, DefaultLimits)
    /\ \E h \in StreamHistories :
          \E r \in {AfterSteps(h, strategies, accounts, configs, clock)} :
              trades = r.L /\ orders = r.orders

StreamNext ==
    \/ RunStrategies(StreamSignals, {NilEnv}, {Accepted}, Later, MaxTrades)
    \/ TradeUpdate(StreamEvents)

StreamSpec == StreamInit /\ [][StreamNext]_vars

\* ledgers in front of the periodic sweep: nothing; a buy at 12 and a block
\* market sell filled at 8 (a loss on both accounts); a buy at 8 and a block
\* sell filled at 12 (a gain on both accounts)
BlockSell == [MarketSell EXCEPT !.strategy = "alpha", !.price = 10]

SweepHistories ==
    {<<>>,
     <<Call(BuySignal, Filled(12)), Call(BlockMarketSell, Filled(8))>>,
     <<Call(BuySignal, Filled(8)), Call(BlockSell, Filled(12))>>}

\* the phases an account is in when the sweep meets it
SweepPhases == {"evaluation", "verification", "funded", "failed"}

\* profit targets (percent of the account size)
ProfitTargets == {0, 10, 40}

SweepSignals ==
    [ticker : {"AAPL"}, action : Sides, quantity : SignalQuantities, price : {0},
     strategy : {"alpha"}]

SweepInit ==
    /\ configs = <<DefaultConfigRow>>
    /\ \E sizes \in AccountSizePairs, p1 \in SweepPhases, p2 \in SweepPhases,
          target \in ProfitTargets :
          accounts = [i \in 1..2 |->
                        [AccountRow(AccountNumbers[i], AccountNumbers[i], sizes[i])
                            EXCEPT !.phase = IF i = 1 THEN p1 ELSE p2,
                                   !.profit_target_pct = target]]
    /\ strategies = [alpha |-> [is_active |-> TRUE, account_numbers |-> {"A1", "A2"}],
                     solo |-> [is_active |-> TRUE, account_numbers |-> {}]]
    /\ events = <<>>
    /\ clock = [day |-> 0, open |-> TRUE]
    /\ client = "MagicMock"
    /\ last = Idle
    /\ \E h \in SweepHistories :
          \E r \in {AfterSteps(h, strategies, accounts, configs, clock)} :
              trades = r.L /\ orders = r.orders

\* the sweep runs between the calls of the strategy runner
SweepNext ==
    \/ Sweep
    \/ Len(trades) <= MaxTrades /\ RunStrategies(SweepSignals, {NilEnv}, {Filled(12)},
                                                 Later, 2 * MaxTrades)

SweepSpec == SweepInit /\ [][SweepNext]_vars

\* accounts a losing history leaves without equity: sizes 10 and 10, or 20
\* and 20, against a realized loss of 20 each, next to accounts the same loss
\* leaves solvent
DepletedSizePairs == {<<10, 10>>, <<20, 20>>, <<60, 40>>}

EquityInit ==
    /\ InitWith(DepletedSizePairs, {"MagicMock"}, DefaultLimits)
    /\ \E h \in SweepHistories :
          \E r \in {AfterSteps(h, strategies, accounts, configs, clock)} :
              trades = r.L /\ orders = r.orders

\* block orders over both accounts, filled at once or left open
EquityNext ==
    Len(trades) <= MaxTrades /\ RunStrategies(SweepSignals, {NilEnv},
                                               {Filled(8), Filled(12), Accepted},
                                               Later, 2 * MaxTrades)

EquitySpec == EquityInit /\ [][EquityNext]_vars

\* inserts that share a millisecond: the second insert of a call in the
\* millisecond of the first, or the first insert of a call in the millisecond
\* of the newest row (written by a signal executing at the same time)
SameMillisecond == {<<1, 0>>, <<0, 1>>}

IdInit ==
    /\ InitWith(AccountSizePairs, {"MagicMock"}, DefaultLimits)
    /\ trades = <<>>
    /\ orders = <<>>

\* the executor under a clock of millisecond resolution, while the broker
\* holds fewer than MaxTrades orders
IdNext ==
    Len(orders) < MaxTrades /\ RunStrategies(LedgerSignals, {NilEnv}, {Accepted},
                                              Later \cup SameMillisecond, MaxTrades)

IdSpec == IdInit /\ [][IdNext]_vars

\* the RiskConfig rows the operator can meet: the row named "default" alone;
\* a row created before it; the default row deactivated in favour of a newer
\* row; no row named "default"
ConfigTables ==
    {<<DefaultConfigRow>>,
     <<ConfigRow("live", FALSE, DefaultLimits), DefaultConfigRow>>,
     <<[DefaultConfigRow EXCEPT !.is_active = FALSE], ConfigRow("live", FALSE, DefaultLimits)>>,
     <<ConfigRow("live", FALSE, DefaultLimits)>>}

ConfigInit ==
    /\ configs \in ConfigTables
    /\ \E sizes \in AccountSizePairs :
          accounts = [i \in 1..2 |-> AccountRow(AccountNumbers[i], AccountNumbers[i], sizes[i])]
    /\ strategies = [alpha |-> [is_active |-> TRUE, account_numbers |-> {"A1", "A2"}],
                     solo |-> [is_active |-> TRUE, account_numbers |-> {}]]
    /\ trades = <<>>
    /\ events = <<>>
    /\ orders = <<>>
    /\ clock = [day |-> 0, open |-> TRUE]
    /\ client = "MagicMock"
    /\ last = Idle

\* the operator's kill switch between the calls of the strategy runner
ConfigNext ==
    \/ KillSwitch
    \/ RunStrategies(LedgerSignals, {NilEnv}, {Accepted}, Later, MaxTrades)

ConfigSpec == ConfigInit /\ [][ConfigNext]_vars

\* the sweep between the calls of the strategy runner and during them
RaceNext ==
    \/ SweepNext
    \/ Len(trades) <= MaxTrades /\ RunStrategiesAcrossSweep(SweepSignals, {NilEnv},
                                                            {Filled(12)}, Later,
                                                            2 * MaxTrades)

RaceSpec == SweepInit /\ [][RaceNext]_vars

\* the broker links of the two accounts: the account numbers themselves, the
\* field default, identifiers of the broker's own
BrokerAccountIds == {<<"A1", "A2">>, <<"", "">>, <<"U1", "U2">>}

LinkSignals == {BuySignal, BlockMarketSell, [BuySignal EXCEPT !.strategy = "alpha"]}

LinkInit ==
    /\ configs = <<DefaultConfigRow>>
    /\ \E sizes \in AccountSizePairs, ids \in BrokerAccountIds :
          accounts = [i \in 1..2 |-> AccountRow(AccountNumbers[i], ids[i], sizes[i])]
    /\ strategies = [alpha |-> [is_active |-> TRUE, account_numbers |-> {"A1", "A2"}],
                     solo |-> [is_active |-> TRUE, account_numbers |-> {}]]
    /\ trades = <<>>
    /\ events = <<>>
    /\ orders = <<>>
    /\ clock = [day |-> 0, open |-> TRUE]
    /\ client = "MagicMock"
    /\ last = Idle

\* buys and block sells, filled low or high
LinkNext == RunStrategies(LinkSignals, {NilEnv}, {Filled(8), Filled(12)}, Later, MaxTrades)

LinkSpec == LinkInit /\ [][LinkNext]_vars

\* arguments of the Kelly fraction: a mode the constructor does not know;
\* win rates and averages that are not a number, negative, zero, the
\* smallest positive float, and ordinary ones
EngineModes == KellyModes \cup {"eighth"}

WinRates ==
    {NaN, Float(-1, 4), Float(0, 1), Float(1, 4), Float(1, 2), Float(15, 16), Float(1, 1),
     Float(5, 4)}

Averages ==
    {NaN, Float(-1, 1), Float(0, 1), Float(1, Ulps), Float(1, 1), Float(3, 1), Float(8, 1),
     Float(15, 1)}

KellyInit ==
    /\ configs = <<DefaultConfigRow>>
    /\ accounts = <<>>
    /\ strategies = [alpha |-> [is_active |-> TRUE, account_numbers |-> {}],
                     solo |-> [is_active |-> TRUE, account_numbers |-> {}]]
    /\ trades = <<>>
    /\ events = <<>>
    /\ orders = <<>>
    /\ clock = [day |-> 0, open |-> TRUE]
    /\ client = "MagicMock"
    /\ \E mode \in EngineModes, win_rate \in WinRates, average_win \in Averages,
          average_loss \in Averages :
          last = [op |-> "engine", mode |-> mode, win_rate |-> win_rate,
                  average_win |-> average_win, average_loss |-> average_loss]

KellyNext == CalculateFraction

KellySpec == KellyInit /\ [][KellyNext]_vars

\* Strategy rows in front of the allocator, in creation order: none, one,
\* two, a paused one, three, two of the same name (only strategy_id is
\* unique), all paused
StrategyRow(name, is_active) ==
    [name |-> name, is_active |-> is_active, account_numbers |-> {}]

AllocStrategies ==
    {<<>>,
     <<StrategyRow("alpha", TRUE)>>,
     <<StrategyRow("alpha", TRUE), StrategyRow("solo", TRUE)>>,
     <<StrategyRow("alpha", TRUE), StrategyRow("solo", FALSE)>>,
     <<StrategyRow("alpha", TRUE), StrategyRow("solo", TRUE), StrategyRow("beta", TRUE)>>,
     <<StrategyRow("alpha", TRUE), StrategyRow("alpha", TRUE)>>,
     <<StrategyRow("alpha", FALSE), StrategyRow("solo", FALSE)>>}

\* the strategies under which the ledgers were traded
TradedStrategies ==
    [alpha |-> [is_active |-> TRUE, account_numbers |-> {}],
     solo |-> [is_active |-> TRUE, account_numbers |-> {}]]

\* total_equity the allocator is constructed with
AllocEquities == {0, Dec(100), Dec(250)}

Repeat(step, n) == [i \in 1..n |-> step]

\* a strategy's round trips: a buy of 20 filled at 10, then market sells of 1
\* filled at 12 (won), at 9 (lost) and at 10 (neither)
RoundTrips(strategy, won, lost, flat) ==
    <<Call([BuySignal EXCEPT !.strategy = strategy, !.quantity = 20], Filled(10))>>
    \o Repeat(Call([MarketSell EXCEPT !.strategy = strategy, !.quantity = 1], Filled(12)), won)
    \o Repeat(Call([MarketSell EXCEPT !.strategy = strategy, !.quantity = 1], Filled(9)), lost)
    \o Repeat(Call([MarketSell EXCEPT !.strategy = strategy, !.quantity = 1], Filled(10)), flat)

\* trade histories: none; nine resolved trades; ten with an edge; ten lost;
\* nine resolved among eleven filled sells; two strategies with ten or more
AllocHistories ==
    {<<>>,
     RoundTrips("alpha", 5, 4, 0),
     RoundTrips("alpha", 6, 4, 0),
     RoundTrips("alpha", 0, 10, 0),
     RoundTrips("alpha", 6, 3, 2),
     RoundTrips("alpha", 6, 4, 0) \o RoundTrips("solo", 9, 2, 0)}

AllocInit ==
    /\ configs = <<DefaultConfigRow>>
    /\ accounts = [i \in 1..2 |-> AccountRow(AccountNumbers[i], AccountNumbers[i], 50)]
    /\ strategies \in AllocStrategies
    /\ events = <<>>
    /\ clock = [day |-> 0, open |-> TRUE]
    /\ client = "MagicMock"
    /\ \E h \in AllocHistories :
          \E r \in {AfterSteps(h, TradedStrategies, accounts, configs, clock)} :
              trades = r.L /\ orders = r.orders
    /\ \E total_equity \in AllocEquities :
          last = [op |-> "allocator", total_equity |-> total_equity]

AllocNext == Allocate

AllocSpec == AllocInit /\ [][AllocNext]_vars

\* the webhook endpoint in front of the executor
WebhookNext ==
    \/ WebhookUnauthorized(WebhookPayloads)
    \/ WebhookInvalid(WebhookPayloads)
    \/ WebhookDispatch(WebhookPayloads, {NilEnv}, Dispositions, Later)
    \/ KillSwitch

WebhookSpec == Init /\ [][WebhookNext]_vars

\* ============================================================= properties
IsCall == last.op \in {"run_strategies", "webhook"} /\ last.gate # <<>>

\* rows the last call created
NewRows == {i \in DOMAIN trades : i >= last.first}

\* the RiskConfig row check_trade reads
ActiveRow == configs[ActiveConfig(configs)]

\* the order of the eight checks the risk gate is specified with
GateOrder ==
    <<"kill_switch", "market_hours", "daily_drawdown", "daily_loss_limit",
      "daily_trade_count", "max_open_positions", "position_size", "sell_above_cost">>

Rank(name) == CHOOSE k \in DOMAIN GateOrder : GateOrder[k] = name

\* C1: when more than one of the eight checks would fail, check_trade
\* rejects with the reason of the failing check that comes first in the
\* order kill switch, market hours, daily drawdown, daily loss limit, daily
\* trade count, max open positions, position size, sell-above-cost-basis
C1_FirstFailureReported ==
    IsCall =>
        \A k \in DOMAIN last.gate :
            LET e == last.gate[k]
            IN  Cardinality(e.failing) > 1 =>
                    /\ ~e.approved
                    /\ e.reason \in e.failing
                    /\ \A n \in e.failing : Rank(e.reason) <= Rank(n)

\* a call in which the kill switch passed and at least three later checks
\* failed, the market-hours reason being the one reported
C1_Witness ==
    /\ IsCall
    /\ \E k \in DOMAIN last.gate :
          /\ last.gate[k].reason = "market_hours"
          /\ {"daily_drawdown", "daily_trade_count", "sell_above_cost"}
                \subseteq last.gate[k].failing

\* C2: while the active RiskConfig has kill_switch_active, check_trade
\* rejects every signal for every account with the kill-switch reason, and
\* execute_signal returns only rejected Trade records (no order submitted)
C2_KillSwitchRejectsAll ==
    (IsCall /\ ActiveConfig(configs) # 0 /\ ActiveRow.kill_switch_active) =>
        /\ \A k \in DOMAIN last.gate :
              ~last.gate[k].approved /\ last.gate[k].reason = "kill_switch"
        /\ last.submits = 0
        /\ \A i \in NewRows :
              /\ trades[i].status = "rejected"
              /\ ~trades[i].risk_approved
              /\ trades[i].risk_reason = "kill_switch"
        /\ Cardinality(NewRows) = Len(last.gate)

\* a two-account block rejected by the kill switch
C2_Witness ==
    /\ IsCall
    /\ ActiveRow.kill_switch_active
    /\ Len(last.gate) = 2
    /\ \A i \in NewRows : trades[i].risk_reason = "kill_switch"
    /\ Cardinality(NewRows) = 2

\* the ledger as the last call found it
Before == SubSeq(trades, 1, last.first - 1)

\* the row the last call created for a candidate account
RowOf(a) ==
    CHOOSE i \in NewRows : trades[i].broker_account_id = AccountNumberOf(accounts, a)

\* C3 (as specified): when the gate approves a signal for at least one
\* account and the broker answers the master order with a fill price, each
\* approved account has a Trade with status filled, fill_price the master
\* fill price, the broker's order id as broker_order_id and, for a buy,
\* cost_basis equal to fill_price
C3_AcceptedFillPersisted ==
    (IsCall /\ last.disposition.kind = "filled") =>
        \A k \in DOMAIN last.gate :
            last.gate[k].approved =>
                LET t == trades[RowOf(last.gate[k].account)]
                IN  /\ t.status = "filled"
                    /\ t.fill_price = Dec(last.disposition.price)
                    /\ last.order_id # NoOrder
                    /\ t.broker_order_id = last.order_id
                    /\ (t.side = "buy" => t.cost_basis = t.fill_price)

\* non-rejected rows carrying the id of one broker order
BlockRows(o) ==
    {i \in DOMAIN trades : trades[i].broker_order_id = o /\ trades[i].status # "rejected"}

SumQuantity(rows) ==
    SumSeq([i \in DOMAIN trades |-> IF i \in rows THEN trades[i].quantity ELSE 0])

\* C4 (as specified): within one block execution, stream updates included,
\* the non-rejected Trades share one broker_order_id, the filled ones share
\* one fill_price, and their quantities sum to at most the block's quantity
C4_BlockConsistent ==
    /\ IsCall =>
          \A i, j \in NewRows :
              (trades[i].risk_approved /\ trades[j].risk_approved) =>
                  trades[i].broker_order_id = trades[j].broker_order_id
    /\ \A o \in DOMAIN orders :
          /\ \A i, j \in BlockRows(o) :
                (trades[i].status = "filled" /\ trades[j].status = "filled") =>
                    trades[i].fill_price = trades[j].fill_price
          /\ SumQuantity(BlockRows(o)) <= orders[o].qty

\* the PropFirmAccounts the last call's gate approved
ApprovedAccounts ==
    {last.gate[k].account : k \in {j \in DOMAIN last.gate :
                                      last.gate[j].approved /\ last.gate[j].account # 0}}

\* sum of their equities when the call was made
ApprovedEquity ==
    SumSeq([a \in DOMAIN accounts |->
              IF a \in ApprovedAccounts THEN current_equity(accounts[a], Before) ELSE 0])

\* C5: in a block over approved PropFirmAccounts of positive total equity,
\* each account's Trade quantity is the signal quantity times that account's
\* share of the approved equity: within one quantum of the exact share, and
\* the exact share whenever that is a whole number of quanta
C5_ProRata ==
    (IsCall /\ last.submits = 1 /\ ApprovedAccounts # {} /\ ApprovedEquity > 0) =>
        \A a \in ApprovedAccounts :
            LET q == trades[RowOf(a)].quantity
                e == current_equity(accounts[a], Before)
                T == Dec(last.signal.quantity)
            IN  /\ Abs(q * ApprovedEquity - T * e) < ApprovedEquity
                /\ (T * e) % ApprovedEquity = 0 => q * ApprovedEquity = T * e

\* equities 60 and 40, quantity 10: Trades of 6 and 4 under one order id
C5_Witness ==
    /\ IsCall
    /\ last.submits = 1
    /\ ApprovedAccounts = {1, 2}
    /\ current_equity(accounts[1], Before) = Dec(60)
    /\ current_equity(accounts[2], Before) = Dec(40)
    /\ last.signal.quantity = 10
    /\ trades[RowOf(1)].quantity = Dec(6)
    /\ trades[RowOf(2)].quantity = Dec(4)
    /\ trades[RowOf(1)].broker_order_id = trades[RowOf(2)].broker_order_id
    /\ trades[RowOf(1)].broker_order_id # NoOrder

\* the filled buys of a symbol in a ledger, their cost and their quantity
IsFilledBuy(t, symbol) ==
    t.symbol = symbol /\ t.side = "buy" /\ t.status = "filled" /\ t.cost_basis # None

BuyCost(B, symbol) ==
    SumSeq([i \in DOMAIN B |->
              IF IsFilledBuy(B[i], symbol) THEN B[i].cost_basis * B[i].quantity ELSE 0])

BuyQty(B, symbol) ==
    SumSeq([i \in DOMAIN B |-> IF IsFilledBuy(B[i], symbol) THEN B[i].quantity ELSE 0])

\* cost_basis is the quantity-weighted average cost N / D of the buys and
\* realized_pnl is (fill_price - N / D) * quantity, each to the rounding of
\* the stored fields (half a quantum of the result, half a quantum of quantity)
CostedFrom(t, B) ==
    LET N == BuyCost(B, t.symbol)
        D == BuyQty(B, t.symbol)
    IN  /\ 2 * Abs(t.cost_basis * D - N) <= D
        /\ 2 * Abs(t.realized_pnl * D * Scale - (t.fill_price * D - N) * t.quantity)
              <= D * Scale + Abs(t.fill_price * D - N)

\* C6: a filled sell of a symbol with prior filled buys carries, once its
\* cost basis is updated, cost_basis = the quantity-weighted average
\* cost_basis of those buys and realized_pnl = (fill_price - average) * quantity
C6_SellCostBasis ==
    /\ IsCall =>
          \A i \in NewRows :
              (/\ trades[i].side = "sell"
               /\ trades[i].status = "filled"
               /\ BuyQty(Before, trades[i].symbol) > 0) => CostedFrom(trades[i], Before)
    /\ (last.op = "trade_update" /\ last.disposition.kind = "fill") =>
          LET i == FirstTradeOfOrder(trades, last.order_id)
          IN  (/\ i # 0
               /\ trades[i].side = "sell"
               /\ BuyQty(trades, trades[i].symbol) > 0) => CostedFrom(trades[i], trades)

\* buys of 10 at 8 and 10 at 12, then a sell of 10 filled at 12: cost basis 10
\* and realized P&L (12 - 10) * 10 = 20
C6_Witness ==
    /\ IsCall
    /\ BuyCost(Before, "AAPL") = Dec(8) * Dec(10) + Dec(12) * Dec(10)
    /\ BuyQty(Before, "AAPL") = Dec(20)
    /\ \E i \in NewRows :
          /\ trades[i].side = "sell"
          /\ trades[i].status = "filled"
          /\ trades[i].quantity = Dec(10)
          /\ trades[i].fill_price = Dec(12)
          /\ trades[i].cost_basis = Dec(10)
          /\ trades[i].realized_pnl = Dec(20)

\* C7: a sell signal with 0 < price < the weighted average cost basis of the
\* symbol's filled buys is rejected by the gate for every account (with the
\* cost-basis reason when no other check fails); execute_signal records
\* rejected Trades only and submits no order
C7_SellBelowCostRejected ==
    (/\ IsCall
     /\ last.signal.action = "sell"
     /\ last.signal.price > 0
     /\ BuyQty(Before, last.signal.ticker) > 0
     /\ Dec(last.signal.price) * BuyQty(Before, last.signal.ticker)
           < BuyCost(Before, last.signal.ticker)) =>
        /\ \A k \in DOMAIN last.gate :
              /\ ~last.gate[k].approved
              /\ last.gate[k].failing = {"sell_above_cost"} =>
                    last.gate[k].reason = "sell_above_cost"
        /\ last.submits = 0
        /\ last.order_id = NoOrder
        /\ NewRows # {}
        /\ \A i \in NewRows :
              trades[i].status = "rejected" /\ trades[i].broker_order_id = NoOrder

\* a sell at 10 against buys costing 12 on average, rejected for that reason
C7_Witness ==
    /\ IsCall
    /\ last.signal.action = "sell"
    /\ last.signal.price = 10
    /\ BuyQty(Before, "AAPL") > 0
    /\ BuyCost(Before, "AAPL") = Dec(12) * BuyQty(Before, "AAPL")
    /\ last.gate[1].reason = "sell_above_cost"
    /\ \A i \in NewRows : trades[i].status = "rejected"
    /\ NewRows # {}

\* Trade rows created today, of any status, when the k-th candidate account
\* of the last call was checked: those the call found plus the stubs of the
\* candidates rejected before it
CountAt(k) ==
    Cardinality({i \in DOMAIN Before : Before[i].created_day >= clock.day})
        + Cardinality({j \in 1..(k - 1) : ~last.gate[j].approved})

EarlierThanCount == {"kill_switch", "market_hours", "daily_drawdown", "daily_loss_limit"}

LaterThanCount == {"max_open_positions", "position_size", "sell_above_cost"}

\* C8: with today's Trade count (every status) at or above max_daily_trades
\* and no earlier check failing, the signal is rejected with the daily trade
\* limit reason; it gets past this check only with the count below the limit
C8_DailyTradeCount ==
    (IsCall /\ ActiveConfig(configs) # 0) =>
        \A k \in DOMAIN last.gate :
            LET e == last.gate[k]
            IN  /\ (/\ CountAt(k) >= ActiveRow.max_daily_trades
                    /\ e.failing \cap EarlierThanCount = {}) =>
                       (~e.approved /\ e.reason = "daily_trade_count")
                /\ (e.approved \/ e.reason \in LaterThanCount) =>
                       CountAt(k) < ActiveRow.max_daily_trades

\* the limit is reached by the rejected stub of the block's first account,
\* and the second account is turned down for the count
C8_Witness ==
    /\ IsCall
    /\ Len(last.gate) = 2
    /\ last.gate[1].reason \in LaterThanCount
    /\ CountAt(1) = ActiveRow.max_daily_trades - 1
    /\ CountAt(2) = ActiveRow.max_daily_trades
    /\ last.gate[2].reason = "daily_trade_count"
    /\ trades[Len(trades)].status = "rejected"

\* C9 (as specified): when the broker submit of the master order fails,
\* execute_signal raises to its caller and the webhook answers HTTP 500
\* with the WebhookEvent status set to error
C9_BrokerFailureSurfaced ==
    (/\ last.op = "webhook"
     /\ last.submits = 1
     /\ last.disposition.kind = "error") =>
        /\ last.raised
        /\ last.code = 500
        /\ events # <<>>
        /\ events[Len(events)].status = "error"

\* C10 (as specified): every request to the webhook endpoint creates exactly
\* one WebhookEvent, whatever the answer (401, 400, 200 or 500)
C10_EveryRequestLogged ==
    [][last'.op = "webhook" => Len(events') = Len(events) + 1]_vars

\* the request reached execute_signal: only the dispatch step answers 200 or 500
Dispatched == last.op = "webhook" /\ last.code \in {200, 500}

\* the quantity string denotes a number and that number is positive
PositiveNumber(value) ==
    /\ ~float(value).raised
    /\ ~float(value).nan
    /\ float(value).number > 0

\* C11 (as specified): a webhook request reaches execute_signal only with the
\* configured X-API-Token and a payload whose action is buy or sell and whose
\* quantity parses as a positive number; a request answered 401 or 400
\* creates no Trade and submits no order, and a 400 leaves its WebhookEvent
\* with status rejected
C11_OnlyValidRequestsDispatched ==
    /\ Dispatched =>
          /\ last.token = WEBHOOK_AUTH_TOKEN
          /\ last.payload.action \in {"buy", "sell"}
          /\ PositiveNumber(last.payload.quantity)
    /\ (last.op = "webhook" /\ last.code \in {401, 400}) =>
          /\ NewRows = {}
          /\ last.submits = 0
          /\ last.order_id = NoOrder
    /\ (last.op = "webhook" /\ last.code = 400) =>
          /\ events # <<>>
          /\ events[Len(events)].status = "rejected"

\* statuses after which a Trade is specified to be final
TerminalStatuses == {"filled", "rejected", "error"}

\* C12 (as specified): once a Trade is persisted no operation changes its
\* trade_id, symbol, side or created_at, and its quantity changes only while
\* its status is non-terminal: never after filled, rejected or error
C12_AppendOnly ==
    [][\A i \in DOMAIN trades :
          /\ i \in DOMAIN trades'
          /\ trades'[i].trade_id = trades[i].trade_id
          /\ trades'[i].symbol = trades[i].symbol
          /\ trades'[i].side = trades[i].side
          /\ trades'[i].created_day = trades[i].created_day
          /\ trades[i].status \in TerminalStatuses =>
                trades'[i].quantity = trades[i].quantity]_vars

\* the statuses a Trade is specified to take
SpecifiedStatuses ==
    {"pending", "submitted", "filled", "partial", "cancelled", "rejected", "error"}

\* a step along pending -> submitted -> {filled, partial, cancelled, rejected,
\* error}; a partial fill may still complete or be cancelled
StatusStep(from, to) ==
    \/ to = from
    \/ from = "pending" /\ to = "submitted"
    \/ from = "submitted" /\ to \in {"filled", "partial", "cancelled", "rejected", "error"}
    \/ from = "partial" /\ to \in {"filled", "cancelled"}

\* C13 (as specified): every Trade's status is one of pending, submitted,
\* filled, partial, cancelled, rejected, error; it changes only along
\* pending -> submitted -> {filled, partial, cancelled, rejected, error};
\* after filled, rejected or error it never changes again, so the stream
\* promotes submitted -> filled at most once
C13_StatusTransitions ==
    [][/\ \A i \in DOMAIN trades' : trades'[i].status \in SpecifiedStatuses
       /\ \A i \in DOMAIN trades :
             /\ i \in DOMAIN trades'
             /\ StatusStep(trades[i].status, trades'[i].status)
             /\ trades[i].status \in TerminalStatuses =>
                   trades'[i].status = trades[i].status]_vars

\* the last step was the periodic sweep
IsSweep == last.op = "sweep"

\* total_drawdown_pct >= max_total_drawdown_pct, as a fraction of account_size
TotalDrawdownReached(acct, L) ==
    /\ total_pnl(acct, L) <= 0
    /\ -total_pnl(acct, L) * 100 >= acct.max_total_drawdown_pct * acct.account_size * Scale

\* C14 (as specified): when the sweep evaluates an active account in phase
\* evaluation, verification or funded whose total drawdown has reached
\* max_total_drawdown_pct, the account ends the sweep failed and inactive
C14_BreachFailsAccount ==
    [][last'.op = "sweep" =>
          \A i \in DOMAIN accounts :
              (/\ accounts[i].is_active
               /\ accounts[i].phase \in {"evaluation", "verification", "funded"}
               /\ TotalDrawdownReached(accounts[i], trades)) =>
                  /\ accounts'[i].phase = "failed"
                  /\ ~accounts'[i].is_active]_vars

\* the profit target of an account, in quanta times 100, and whether its
\* realized P&L has reached it
TargetReached(acct, L) ==
    /\ acct.account_size * acct.profit_target_pct > 0
    /\ total_pnl(acct, L) * 100 >= acct.account_size * Scale * acct.profit_target_pct

\* C15: when the sweep evaluates an active, compliant account in phase
\* evaluation or verification whose profit target is positive and reached
\* by total_pnl, the account is halted (is_active false) with its phase
\* unchanged; a compliant account in another phase or below its target is
\* left active and unchanged
C15_TargetHaltsAccount ==
    [][last'.op = "sweep" =>
          \A i \in DOMAIN accounts :
              (/\ accounts[i].is_active
               /\ accounts[i].phase # "failed"
               /\ ~TotalDrawdownReached(accounts[i], trades)) =>
                  IF /\ accounts[i].phase \in {"evaluation", "verification"}
                     /\ TargetReached(accounts[i], trades)
                  THEN accounts'[i] = [accounts[i] EXCEPT !.is_active = FALSE]
                  ELSE accounts'[i] = accounts[i]]_vars

\* a sweep that halted a verification account exactly at its target and left
\* a funded account with the same gain active
C15_Witness ==
    /\ IsSweep
    /\ \E i \in last.halted :
          /\ accounts[i].phase = "verification"
          /\ ~accounts[i].is_active
          /\ total_pnl(accounts[i], trades) * 100
                = accounts[i].account_size * Scale * accounts[i].profit_target_pct
    /\ \E j \in DOMAIN accounts :
          /\ accounts[j].phase = "funded"
          /\ accounts[j].is_active
          /\ TargetReached(accounts[j], trades)

\* C20 (as specified): check_trade rejects a signal for a PropFirmAccount
\* that has failed or whose total drawdown has reached its
\* max_total_drawdown_pct, whatever the RiskConfig checks say, and
\* execute_signal leaves no non-rejected Trade for such an account
C20_AccountLimitsEnforced ==
    IsCall =>
        \A k \in DOMAIN last.gate :
            LET a == last.gate[k].account
            IN  (/\ a # 0
                 /\ \/ accounts[a].phase = "failed"
                    \/ TotalDrawdownReached(accounts[a], Before)) =>
                    /\ ~last.gate[k].approved
                    /\ \A i \in NewRows :
                          trades[i].broker_account_id = accounts[a].account_number =>
                              trades[i].status = "rejected"

\* the last step handled a fill or partial_fill event of an order some Trade
\* carries
IsKnownFill ==
    /\ last.op = "trade_update"
    /\ last.disposition.kind \in {"fill", "partial_fill"}
    /\ FirstTradeOfOrder(trades, last.order_id) # 0

\* C16 (as specified): on a fill or partial_fill event for a known
\* broker_order_id, every Trade carrying that id (all per-account rows of
\* the block) has its fill_price set from the event and its cost basis
\* recomputed and saved
C16_FillUpdatesWholeBlock ==
    IsKnownFill =>
        \A i \in DOMAIN trades :
            trades[i].broker_order_id = last.order_id =>
                /\ trades[i].fill_price = last.disposition.price
                /\ trades[i].side = "buy" => trades[i].cost_basis = trades[i].fill_price
                /\ (trades[i].side = "sell" /\ BuyQty(trades, trades[i].symbol) > 0) =>
                       CostedFrom(trades[i], trades)

\* fill events the stream can deliver: with or without a price and a quantity
FillEvents ==
    [event : {"fill", "partial_fill"}, price : {None, Dec(12)}, qty : {None, Dec(5)}]

\* C17: handling the same fill event twice in a row leaves every Trade
\* (status, fill_price, quantity, cost_basis, realized_pnl) as handling it
\* once does, and an event whose order id matches no Trade leaves the
\* ledger unchanged
C17_FillIdempotent ==
    \A o \in 1..(Len(orders) + 1), m \in FillEvents :
        \E once \in {trade_update_handler(trades, m.event, o, m.price, m.qty)} :
            /\ trade_update_handler(once, m.event, o, m.price, m.qty) = once
            /\ FirstTradeOfOrder(trades, o) = 0 => once = trades

\* a sell filled by the stream with a realized gain, which the same event
\* delivered again would leave as it is
C17_Witness ==
    /\ IsKnownFill
    /\ last.disposition.kind = "fill"
    /\ LET i == FirstTradeOfOrder(trades, last.order_id)
       IN  /\ trades[i].side = "sell"
           /\ trades[i].status = "filled"
           /\ trades[i].realized_pnl > 0
           /\ trade_update_handler(trades, "fill", last.order_id, last.disposition.price,
                                   orders[last.order_id].qty) = trades

\* the exact product p * (average_win + average_loss) is at most average_loss
NoEdge(p, average_win, average_loss) ==
    p.n * (average_win.n * average_loss.d + average_loss.n * average_win.d) * average_loss.d
        <= average_loss.n * p.d * average_win.d * average_loss.d

\* p <= 0, p >= 1 or a non-positive average
InvalidInput(p, average_win, average_loss) ==
    \/ FloatLe(p, Float(0, 1))
    \/ FloatGe(p, Float(1, 1))
    \/ FloatLe(average_win, Float(0, 1))
    \/ FloatLe(average_loss, Float(0, 1))

\* C18 (as specified): calculate_fraction returns a number that is at least
\* 0 and at most 1 for all inputs and every mode, 0 whenever
\* p * (average_win + average_loss) <= average_loss, and 0 for invalid
\* input (p <= 0, p >= 1 or a non-positive average)
C18_KellyFraction ==
    last.op = "calculate_fraction" =>
        /\ last.result.raised = ""
        /\ FloatGe(last.result.value, Float(0, 1))
        /\ FloatLe(last.result.value, Float(1, 1))
        /\ InvalidInput(last.win_rate, last.average_win, last.average_loss)
              => last.result.value = Float(0, 1)
        /\ (/\ ~last.win_rate.nan /\ ~last.average_win.nan /\ ~last.average_loss.nan
            /\ NoEdge(last.win_rate, last.average_win, last.average_loss))
              => last.result.value = Float(0, 1)

\* sum of f over the keys S
RECURSIVE SumOver(_, _)
SumOver(f, S) ==
    IF S = {} THEN 0
    ELSE With(CHOOSE x \in S : TRUE, LAMBDA x : f[x] + SumOver(f, S \ {x}))

ActiveStrategies == {i \in DOMAIN strategies : strategies[i].is_active}

\* filled sells of the strategy with a realized P&L other than zero
ResolvedTrades(name) ==
    {i \in DOMAIN trades : /\ trades[i].strategy = name
                           /\ trades[i].status = "filled"
                           /\ trades[i].side = "sell"
                           /\ trades[i].realized_pnl # 0}

\* C19 (as specified): for any active strategies and any trade history the
\* allocations returned by get_strategy_allocations sum to total_equity (up
\* to the rounding of each weight), every active strategy receives a
\* strictly positive share when total_equity > 0, and a strategy with fewer
\* than 10 resolved trades has the base score 1.0
C19_AllocationsSumToEquity ==
    (last.op = "get_strategy_allocations" /\ ActiveStrategies # {}) =>
        /\ 2 * Abs(SumOver(last.result.allocations, DOMAIN last.result.allocations)
                     - last.total_equity * WeightScale)
              <= Cardinality(ActiveStrategies) * last.total_equity
        /\ last.total_equity > 0 =>
              \A i \in ActiveStrategies :
                  /\ strategies[i].name \in DOMAIN last.result.allocations
                  /\ last.result.allocations[strategies[i].name] > 0
        /\ \A i \in ActiveStrategies :
              Cardinality(ResolvedTrades(strategies[i].name)) < MinResolved
                  => last.result.strategy_scores[strategies[i].name] = DecimalRatio(1, 1)

\* the call reached the broker submit: every account of the block passed the gate
Submitting ==
    /\ IsCall
    /\ ~last.raised
    /\ \E k \in DOMAIN last.gate : last.gate[k].approved

\* what the failed submit raised: the client class does not take the keyword
\* arguments, or the broker answers with an error
SubmitFailure ==
    IF ~(BlockOrderKwargs \subseteq AcceptedKwargs(client)) THEN "TypeError"
    ELSE IF last.disposition.kind = "error" THEN "BrokerError"
    ELSE ""

\* the new rows execute_signal created for an account of the block
RowsOf(a) ==
    {i \in NewRows : trades[i].broker_account_id = AccountNumberOf(accounts, a)}

\* C21: when the broker submit raises, execute_signal submits once and not
\* again, no order exists at the broker, and every approved account gets
\* exactly one Trade with status "error", the exception text in
\* error_message, no broker_order_id, no fill_price and no cost_basis.
C21_SubmitFailureRecorded ==
    (Submitting /\ SubmitFailure # "") =>
        /\ last.submits = 1
        /\ last.order_id = NoOrder
        /\ \A k \in DOMAIN last.gate :
              last.gate[k].approved =>
                /\ Cardinality(RowsOf(last.gate[k].account)) = 1
                /\ \A i \in RowsOf(last.gate[k].account) :
                      /\ trades[i].status = "error"
                      /\ trades[i].error_message = SubmitFailure
                      /\ trades[i].broker_order_id = NoOrder
                      /\ trades[i].fill_price = None
                      /\ trades[i].cost_basis = None

\* a two-account block whose submit the broker answers with an error
C21_Witness ==
    /\ Submitting
    /\ last.disposition.kind = "error"
    /\ Len(last.gate) = 2
    /\ \A i \in NewRows : trades[i].status = "error" /\ trades[i].error_message = "BrokerError"
    /\ Cardinality(NewRows) = 2

C23_UniformSplitWithoutEquity ==
    (IsCall /\ last.submits = 1 /\ ApprovedAccounts # {}) =>
        \A a \in ApprovedAccounts :
            LET q == trades[RowOf(a)].quantity
                T == Dec(last.signal.quantity)
            IN  /\ ApprovedEquity <= 0 => q = RoundDiv(T, Cardinality(ApprovedAccounts))
                /\ 0 <= q
                /\ q <= T

\* the rows of a ledger recorded for one broker account
OwnRows(L, broker_account_id) ==
    SelectSeq(L, LAMBDA t : t.broker_account_id = broker_account_id)

\* the ledger a sell's cost basis is to be computed from: the account's own
\* rows when the Trade names an account, every row when it names none
CostLedger(t, L) ==
    IF t.broker_account_id = "" THEN L ELSE OwnRows(L, t.broker_account_id)

\* cost_basis and realized_pnl of a filled sell come from the buys of B only
CostedOnlyFrom(t, B) ==
    IF BuyQty(B, t.symbol) > 0 THEN CostedFrom(t, B)
    ELSE t.cost_basis = None /\ t.realized_pnl = 0

\* C24: a filled sell whose Trade names a broker account has its cost_basis
\* and realized_pnl computed from that account's own prior filled buys of the
\* symbol only; buys of all accounts are aggregated only when it names none.
C24_CostBasisPerAccount ==
    /\ IsCall =>
          \A i \in NewRows :
              (trades[i].side = "sell" /\ trades[i].status = "filled") =>
                  CostedOnlyFrom(trades[i], CostLedger(trades[i], Before))
    /\ (last.op = "trade_update" /\ last.disposition.kind = "fill") =>
          LET i == FirstTradeOfOrder(trades, last.order_id)
          IN  (i # 0 /\ trades[i].side = "sell") =>
                  CostedOnlyFrom(trades[i], CostLedger(trades[i], trades))

\* what the gate answers for the last call's signal in the ledger the call met
Standalone == check_trade(configs, last.signal, Before, clock, last.env)

\* C25: the (approved, reason) result execute_signal records for an account
\* is the one the gate gives that account on its own, whichever accounts are
\* checked before it in the block: a stub written for an earlier account
\* does not change a later account's result.
C25_GateDecisionsIndependent ==
    (IsCall /\ ~last.raised) =>
        \A k \in DOMAIN last.gate :
            /\ last.gate[k].approved = Standalone.approved
            /\ last.gate[k].reason = Standalone.reason

\* the Trades created today that passed the gate
ApprovedToday ==
    {i \in DOMAIN trades : trades[i].created_day = clock.day /\ trades[i].risk_approved}

\* C26: in every state a call of execute_signal leaves, the number of
\* risk-approved Trades created today is at most the active RiskConfig's
\* max_daily_trades.
C26_DailyTradesBounded ==
    (IsCall /\ ActiveConfig(configs) # 0) =>
        Cardinality(ApprovedToday) <= ActiveRow.max_daily_trades

\* C27: once a call has submitted the master order, every approved account
\* of the block has its Trade, the call did not end in an exception, and the
\* trade_ids of all Trades are pairwise distinct, also when inserts fall in
\* the same millisecond.
C27_SubmittedBlockHasItsRows ==
    /\ (IsCall /\ last.order_id # NoOrder) =>
          /\ ~last.raised
          /\ \A k \in DOMAIN last.gate :
                last.gate[k].approved => Cardinality(RowsOf(last.gate[k].account)) = 1
    /\ \A i, j \in DOMAIN trades : trades[i].trade_id = trades[j].trade_id => i = j

\* the RiskConfig row the kill-switch action toggles (0 when it is yet to be created)
ToggledConfig ==
    IF \E i \in DOMAIN configs : configs[i].name = "default"
    THEN CHOOSE i \in DOMAIN configs : configs[i].name = "default"
    ELSE 0

\* the operator's kill-switch action has turned the switch on
SwitchedOn == ToggledConfig # 0 /\ configs[ToggledConfig].kill_switch_active

\* C28: while the operator's kill switch is on, the RiskConfig row the
\* action toggled is the row check_trade reads as the active configuration,
\* whatever rows exist, and every call of check_trade rejects.
C28_KillSwitchReachesGate ==
    SwitchedOn =>
        /\ ActiveConfig(configs) = ToggledConfig
        /\ IsCall => \A k \in DOMAIN last.gate : ~last.gate[k].approved

\* the rows a step adds to the ledger that are not rejected stubs
AddedTrades(a) ==
    {i \in DOMAIN trades' :
        /\ i > Len(trades)
        /\ trades'[i].broker_account_id = accounts[a].account_number
        /\ trades'[i].status # "rejected"}

\* C29: a halted PropFirmAccount stays as the halt left it in every step,
\* later sweeps included, and no step in which an account is halted, before
\* or during a call of execute_signal, adds a non-rejected Trade for it.
C29_HaltedAccountStaysOut ==
    [][\A a \in DOMAIN accounts :
          /\ ~accounts[a].is_active => accounts'[a] = accounts[a]
          /\ ~accounts'[a].is_active => AddedTrades(a) = {}]_vars

\* sum of realized_pnl over the filled Trades execute_signal wrote for an account
BookedPnl(acct, L) ==
    LET mine == SelectSeq(L, LAMBDA t : /\ t.broker_account_id = acct.account_number
                                        /\ t.status = "filled")
    IN  SumSeq([i \in DOMAIN mine |-> mine[i].realized_pnl])

\* C30: for every PropFirmAccount, total_pnl is the sum of realized_pnl over
\* the filled Trades execute_signal recorded for it, and current_equity is
\* account_size plus that sum: a loss booked for the account moves its equity.
C30_TotalPnlFollowsLedger ==
    \A a \in DOMAIN accounts :
        /\ total_pnl(accounts[a], trades) = BookedPnl(accounts[a], trades)
        /\ current_equity(accounts[a], trades)
              = Dec(accounts[a].account_size) + BookedPnl(accounts[a], trades)

====
